---- MODULE Spec2Model ----
(***************************************************************************)
(* State-machine model of the vehicle controllers (CarInfoAgent), of the   *)
(* route finder (RouteFinder), of the priority relay (MonitoringAgent) and *)
(* of the signal controller (TrafficLightAgent) of the traffic control     *)
(* system.                                                                 *)
(*                                                                         *)
(*   Spec        CarInfoBehaviour ticks as the asyncio scheduler runs      *)
(*               them: run() contains no await, so a tick is one step.     *)
(*   SpecThreads the same code under thread-backed scheduling: a step is   *)
(*               a claim_lock region or the code between two regions.      *)
(*   SpecRelease release_vehicle called by agents that may control no      *)
(*               vehicle.                                                  *)
(*   SpecRoute   RouteFinder: _parse_net builds the graph, find_route      *)
(*               queries it.                                               *)
(*   SpecReroute RerouteBehaviour ticks of an agent that controls a        *)
(*               vehicle, over the routes ensure_routes_loaded has read.   *)
(*   SpecRelay   MonitoringAgent.PriorityManagerBehaviour: one step per    *)
(*               received message or receive timeout.                      *)
(*   SpecSignal  TrafficLightAgent.ControlBehaviour: a run every five      *)
(*               seconds over the signal plans the simulation executes.    *)
(***************************************************************************)
EXTENDS Integers, Sequences, FiniteSets, TLC

\* ------------------------------------------------------------------ bounds
NumAgents == 2
NumVehicles == 3
NumContended == 2
MaxConnections == 3
MaxRoutes == 2
MaxBody == 5
MaxDemand == 10
NumEdges == 3

\* vehicle_id = None (CarInfo.py line 23)
None == 0

Agents == 1..NumAgents
Vehicles == 1..NumVehicles
\* The vehicles that enter the simulation under SpecThreads.
ContendedVehicles == 1..NumContended
Edges == 1..NumEdges

VARIABLES
    active,            \* simulation: ids of the vehicles in traci.vehicle.getIDList()
    route,             \* simulation: traci.vehicle.getRoute(v), <<>> when v is not active
    closed,            \* simulation: lanes whose disallowed classes contain "passenger"
    claimed_vehicles,  \* CarInfoAgent.claimed_vehicles (class attribute, shared)
    vehicle_id,        \* CarInfoAgent.vehicle_id, per agent
    ev,                \* what the last step did (queries failed, commands issued, ...)
    pc,                \* SpecThreads: position of each agent's thread inside run()
    car_ids,           \* SpecThreads: the local car_ids of run()
    edges,             \* RouteFinder.edges: edge id -> length
    graph,             \* RouteFinder.graph: edge id -> list of the next edges
    parsed,            \* RouteFinder.__init__ has returned
    query,             \* the find_route call in progress: its arguments and result
    routes_by_dest,    \* CarInfoAgent.routes_by_dest: destination edge -> list of routes
    routes_loaded,     \* CarInfoAgent.routes_loaded
    rr,                \* what the last RerouteBehaviour tick read, computed and did
    rerouted_vehicles, \* CarInfoAgent.rerouted_vehicles, per agent
    routes_lock,       \* CarInfoAgent.routes_lock is held
    ctor,              \* where each agent's ensure_routes_loaded call stands
    tls_mapping,       \* MonitoringAgent.tls_mapping, once set_tls_mapping was called
    mailbox,           \* request messages delivered to PriorityManagerBehaviour
    relay,             \* what the last PriorityManagerBehaviour step received and sent
    tl_phase,          \* traci.trafficlight.getPhase(tl) of every traffic light
    tl_elapsed,        \* seconds since the traffic light entered its phase
    tl_wait,           \* seconds until the sleep(5) of ControlBehaviour is over
    tl_alive,          \* ControlBehaviour has not been killed
    tl_plan,           \* the number of phases of the plan of every traffic light
    tl_run,            \* what the last run of ControlBehaviour met and commanded
    tl_inbox,          \* unread priority_request messages sent to each traffic light
    blocked,           \* the _is_edge_blocked call in progress: its arguments and result
    predictor,         \* the CongestionPredictor object constructed last
    disk,              \* the files training_data.json and model.pkl of its data_dir
    ambulance_manager, \* AmbulanceManagerAgent: its fields, its ambulances, its monitor
    disruptions        \* DisruptionAgent: where each of its behaviours stands

vars == <<active, route, closed, claimed_vehicles, vehicle_id, ev,
          pc, car_ids, edges, graph, parsed, query,
          routes_by_dest, routes_loaded, rr, rerouted_vehicles, routes_lock, ctor,
          tls_mapping, mailbox, relay,
          tl_phase, tl_elapsed, tl_wait, tl_alive, tl_plan, tl_run, tl_inbox,
          blocked, predictor, disk, ambulance_manager, disruptions>>

finderVars == <<edges, graph, parsed, query>>
\* What a tick of RerouteBehaviour leaves alone, and what a load does.
loadVars == <<routes_lock, ctor>>
rerouteVars == <<routes_by_dest, routes_loaded, rr, rerouted_vehicles, loadVars>>
relayVars == <<tls_mapping, mailbox, relay>>
\* The variables of the agents that are no vehicle controller.
signalVars == <<tl_phase, tl_elapsed, tl_wait, tl_alive, tl_plan, tl_run, tl_inbox>>
\* The variables of the services beside the controllers.
predVars == <<predictor, disk>>
otherVars == <<blocked, predVars, ambulance_manager, disruptions>>
peerVars == <<relayVars, signalVars, otherVars>>

simVars == <<active, route, closed>>
threadVars == <<pc, car_ids>>

\* ------------------------------------------------------------ the simulation
\* traci.edge.getLaneNumber(e): edge 1 has two lanes, the others one.
LaneNumber(e) == IF e = 1 THEN 2 ELSE 1

Lanes == {l \in Edges \X {0, 1} : l[2] < LaneNumber(l[1])}

\* The route a vehicle departs with.
DepartRoute == [i \in 1..NumEdges |-> i]

\* The vehicle type: vehicle 1 is the ambulance ("ambulance_<n>" sorts first).
TypeID(v) == IF v = 1 THEN "ambulance" ELSE "passenger"

\* The ids of a sequence.
Range(q) == {q[i] : i \in 1..Len(q)}

Min(S) == CHOOSE x \in S : \A y \in S : x <= y

RECURSIVE SortedSeq(_)
SortedSeq(S) == IF S = {} THEN <<>> ELSE LET m == Min(S) IN <<m>> \o SortedSeq(S \ {m})

\* traci.vehicle.getRouteIndex(v), for a vehicle whose route is r: the
\* simulation moves the vehicle on its own, so the answer is any index of the
\* route, or -1 for a vehicle that has not been inserted yet.
RouteIndexValues(r) == -1..(Len(r) - 1)

\* traci.vehicle.getIDList(): the active vehicles, in the order of their ids.
IDList == SortedSeq(active)

\* "passenger" in traci.lane.getDisallowed(f"{e}_{i}") for every lane i of e,
\* when cl is the set of the lanes that disallow passenger.
AllLanesClosedIn(cl, e) == \A i \in 0..(LaneNumber(e) - 1) : <<e, i>> \in cl

AllLanesClosed(e) == AllLanesClosedIn(closed, e)

\* The lanes a disruption can close: lane 0 of each edge.
ClosableLanes == {l \in Lanes : l[2] = 0}

\* ------------------------------------------------------- the claim registry
\* for cid in car_ids: the first id that is not claimed and whose type query
\* either raises (except: pass) or does not answer "ambulance"; None if the
\* loop ends without a break.  typeFails: the ids whose getTypeID raises.
\* Mutant of ClaimScan: the test "cid not in claimed_vehicles" is left out.
RECURSIVE ClaimScanUnchecked(_, _, _)
ClaimScanUnchecked(ids, cl, typeFails) ==
    IF ids = <<>> THEN None
    ELSE LET cid == Head(ids) IN
         IF cid \notin typeFails /\ TypeID(cid) = "ambulance"
         THEN ClaimScanUnchecked(Tail(ids), cl, typeFails)
         ELSE cid

RECURSIVE ClaimScan(_, _, _)
ClaimScan(ids, cl, typeFails) ==
    IF ids = <<>> THEN None
    ELSE LET cid == Head(ids) IN
         IF cid \notin cl
         THEN IF cid \notin typeFails /\ TypeID(cid) = "ambulance"
              THEN ClaimScan(Tail(ids), cl, typeFails)
              ELSE cid
         ELSE ClaimScan(Tail(ids), cl, typeFails)

\* set.remove(v): raises KeyError when v is not in the set.
SetRemove(S, v) == [raised |-> v \notin S, set |-> S \ {v}]

\* Mutant of Release: the id stays in the registry.
ReleaseKeeps(S, v) == [raised |-> FALSE, set |-> S]

\* Mutant of Release: the remove without its guard.
ReleaseUnguarded(S, v) == SetRemove(S, v)

\* if vehicle_id in claimed_vehicles: claimed_vehicles.remove(vehicle_id)
Release(S, v) == IF v \in S THEN SetRemove(S, v) ELSE [raised |-> FALSE, set |-> S]

\* ----------------------------------------------- CarInfoBehaviour.run, a tick
\* The record of a step: op, the agent, whether traci.isLoaded() held, the
\* agent's vehicle_id when the tick began, the id list the claim scan went
\* through, whether an exception left run(), whether some simulation call
\* raised, whether the vehicle was seen absent from the id list, the next
\* edge of the vehicle's route when line 138 found it to be the last one, and
\* the vehicle a remove command was issued for.
NoEvent ==
    [op |-> "init", agent |-> 0, avail |-> FALSE, start |-> None, seen |-> <<>>,
     raised |-> FALSE, failed |-> FALSE, absent |-> FALSE, next_edge |-> None,
     removed |-> None]

Event(op, a) == [NoEvent EXCEPT !.op = op, !.agent = a]

EnvEvent == Event("env", 0)

\* The end of a tick of agent a: its vehicle_id, the registry and the active
\* vehicles as the tick leaves them.  What the scheduler does with an exception
\* that leaves run() is not the repository's code: the behaviour may or may
\* not be run again (no step of the model is ever forced).
Done(a, vid, cl, act, e) ==
    /\ vehicle_id' = [vehicle_id EXCEPT ![a] = vid]
    /\ claimed_vehicles' = cl
    /\ active' = act
    /\ route' = [v \in Vehicles |-> IF v \in act THEN route[v] ELSE <<>>]
    /\ ev' = e
    /\ UNCHANGED <<closed, threadVars, finderVars, rerouteVars, peerVars>>

\* The ways the getTypeID queries of one scan can fail: none does, or one does
\* (the scan ends at the first query that raises: the id is claimed).
TypeFailures == {{}} \cup {{v} : v \in active \ claimed_vehicles}

\* Mutant of Monitor: the handler of line 161 gives the vehicle up.
MonitorReleasesOnError(a, cid, cl, e) ==
    \/ Done(a, None, cl \ {cid}, active, [e EXCEPT !.failed = TRUE])
    \/ Done(a, cid, cl, active, e)

\* Mutant of Monitor: the vehicle is removed before its last edge, closed or
\* not.
MonitorIgnoresLanes(a, cid, cl, e) ==
    \E current_idx \in RouteIndexValues(route[cid]) :
        LET r == route[cid] IN
        IF current_idx >= 0 /\ current_idx + 1 < Len(r)
           /\ r[current_idx + 2] = r[Len(r)]
        THEN Done(a, None, Release(cl, cid).set, active \ {cid},
                  [e EXCEPT !.next_edge = r[current_idx + 2], !.removed = cid])
        ELSE Done(a, cid, cl, active, e)

\* Lines 135-138: the edge after the current one when it is the last edge of
\* the route r, None when the test of line 135 or of line 138 fails.
FinalNextEdge(r, current_idx) ==
    IF current_idx >= 0 /\ current_idx + 1 < Len(r) /\ r[current_idx + 2] = r[Len(r)]
    THEN r[current_idx + 2]
    ELSE None

\* Lines 126-165: the vehicle is active; remove it when the next edge is the
\* last one of its route and is closed.  e: the record of the tick so far.
Monitor(a, cid, cl, e) ==
    \/ \* getRoute or getRouteIndex raises: caught at line 161
       Done(a, cid, cl, active, [e EXCEPT !.failed = TRUE])
    \/ \E next_edge \in {FinalNextEdge(route[cid], current_idx) :
                            current_idx \in RouteIndexValues(route[cid])} :
           IF next_edge # None
           THEN LET e1 == [e EXCEPT !.next_edge = next_edge]
                IN
                \/ \* getLaneNumber or getDisallowed raises: is_closed = False
                   Done(a, cid, cl, active, [e1 EXCEPT !.failed = TRUE])
                \/ IF AllLanesClosed(next_edge)
                   THEN \/ \* traci.vehicle.remove raises: caught at line 161
                           Done(a, cid, cl, active, [e1 EXCEPT !.failed = TRUE])
                        \/ LET rel == Release(cl, cid) IN
                           IF rel.raised
                           THEN \* KeyError inside the try: caught at line 161
                                Done(a, cid, cl, active \ {cid},
                                     [e1 EXCEPT !.removed = cid])
                           ELSE Done(a, None, rel.set, active \ {cid},
                                     [e1 EXCEPT !.removed = cid])
                   ELSE Done(a, cid, cl, active, e1)
           ELSE Done(a, cid, cl, active, e)

\* Mutant of CheckExists: the test of line 118 is left out.
CheckExistsSkipped(a, cid, cl, e) ==
    \/ Done(a, cid, cl, active, [e EXCEPT !.raised = TRUE, !.failed = TRUE])
    \/ Monitor(a, cid, cl, e)

\* Lines 117-124: release the vehicle when it is not in the id list any more.
CheckExists(a, cid, cl, e) ==
    \/ \* getIDList raises at line 118: nothing catches it
       Done(a, cid, cl, active, [e EXCEPT !.raised = TRUE, !.failed = TRUE])
    \/ IF cid \notin active
       THEN LET rel == Release(cl, cid) IN
            IF rel.raised
            THEN \* KeyError at line 122: nothing catches it
                 Done(a, cid, cl, active, [e EXCEPT !.raised = TRUE, !.absent = TRUE])
            ELSE Done(a, None, rel.set, active, [e EXCEPT !.absent = TRUE])
       ELSE Monitor(a, cid, cl, e)

\* Lines 100-111 with the type queries of typeFails raising: the id the scan
\* claims, and whether its type query was one that raised.
ScanResult(car_id_list, typeFails) ==
    LET cid == ClaimScan(car_id_list, claimed_vehicles, typeFails)
    IN  [cid |-> cid, failed |-> cid \in typeFails]

\* One tick of CarInfoBehaviour of agent a.
CarInfoRun(a) ==
    LET e == [Event("car", a) EXCEPT !.start = vehicle_id[a]] IN
    \/ \* not traci.isLoaded(): return
       Done(a, vehicle_id[a], claimed_vehicles, active, e)
    \/ IF vehicle_id[a] = None
       THEN \/ \* getIDList raises at line 99: nothing catches it
               Done(a, None, claimed_vehicles, active,
                    [e EXCEPT !.avail = TRUE, !.raised = TRUE, !.failed = TRUE])
            \/ LET car_id_list == IDList IN
               \E scan \in {ScanResult(car_id_list, typeFails) : typeFails \in TypeFailures} :
                 LET cid == scan.cid
                     e1 == [e EXCEPT !.avail = TRUE, !.seen = car_id_list,
                                     !.failed = scan.failed]
                 IN  IF cid = None
                     THEN Done(a, None, claimed_vehicles, active, e1)
                     ELSE CheckExists(a, cid, claimed_vehicles \cup {cid}, e1)
       ELSE CheckExists(a, vehicle_id[a], claimed_vehicles, [e EXCEPT !.avail = TRUE])

\* ------------------------------------------------- the simulation's own steps
\* A vehicle enters the network with its route.
Depart(v) ==
    /\ v \notin active
    /\ active' = active \cup {v}
    /\ route' = [route EXCEPT ![v] = DepartRoute]
    /\ ev' = EnvEvent
    /\ UNCHANGED <<closed, claimed_vehicles, vehicle_id, threadVars, finderVars, rerouteVars, peerVars>>

\* A vehicle arrives or is taken out of the simulation.
Vanish(v) ==
    /\ v \in active
    /\ active' = active \ {v}
    /\ route' = [route EXCEPT ![v] = <<>>]
    /\ ev' = EnvEvent
    /\ UNCHANGED <<closed, claimed_vehicles, vehicle_id, threadVars, finderVars, rerouteVars, peerVars>>

\* Lane 0 of an edge is closed to, or reopened for, passenger vehicles (the
\* disruptions name the lanes "<edge>_0" only).
SetDisallowed(l) ==
    /\ l \in ClosableLanes
    /\ closed' = IF l \in closed THEN closed \ {l} ELSE closed \cup {l}
    /\ ev' = EnvEvent
    /\ UNCHANGED <<active, route, claimed_vehicles, vehicle_id, threadVars, finderVars, rerouteVars, peerVars>>

Simulation ==
    \/ \E v \in Vehicles : Depart(v)
    \/ \E v \in Vehicles : Vanish(v)
    \/ \E l \in Lanes : SetDisallowed(l)

\* -------------------------------------------------------------- RouteFinder
\* The length of the first lane of an edge, as the network file gives it.
Length(e) == IF e % 2 = 0 THEN 2 ELSE 1

\* No find_route call is in progress.
NoQuery == [start |-> None, end |-> None, check |-> FALSE, sim |-> "none",
            path |-> <<>>]

\* The state after the loop over the <edge> elements (lines 23-36): every
\* edge of the network with its length and an empty adjacency list.
FinderIdle ==
    /\ edges = [e \in Edges |-> Length(e)]
    /\ graph = [e \in Edges |-> <<>>]
    /\ parsed = FALSE
    /\ query = NoQuery

\* _is_edge_blocked(edge_id): sim is "unloaded" when traci.isLoaded() is
\* false, "raises" when a lane query raises, "ok" otherwise.
IsEdgeBlocked(edge_id, sim) ==
    IF sim = "unloaded" THEN FALSE
    ELSE IF sim = "raises" THEN FALSE
    ELSE AllLanesClosed(edge_id)

\* The queries of one _is_edge_blocked call that raise when they are made:
\* i is getDisallowed of lane i, and GetLaneNumber is getLaneNumber(edge_id).
GetLaneNumber == -1
LaneFailures(edge_id) == SUBSET (GetLaneNumber..(LaneNumber(edge_id) - 1))

\* Lines 61-68: for i in range(lane_count), from lane i on.  The answer is
\* "open" (line 66), "blocked" (line 68) or "raise" (a getDisallowed raised).
RECURSIVE LaneLoop(_, _, _, _)
LaneLoop(edge_id, i, lane_count, fails) ==
    IF i >= lane_count THEN "blocked"
    ELSE IF i \in fails THEN "raise"
    ELSE IF <<edge_id, i>> \notin closed THEN "open"
    ELSE LaneLoop(edge_id, i + 1, lane_count, fails)

\* Mutant of IsEdgeBlockedAt: an edge whose lanes cannot be read counts as
\* blocked.
IsEdgeBlockedStrict(edge_id, loaded, fails) ==
    IF ~loaded THEN [raised |-> FALSE, result |-> FALSE]
    ELSE LET body == IF GetLaneNumber \in fails THEN "raise"
                     ELSE LaneLoop(edge_id, 0, LaneNumber(edge_id), fails)
         IN  [raised |-> FALSE, result |-> body # "open"]

\* _is_edge_blocked(edge_id), query by query (lines 54-72): loaded is what
\* traci.isLoaded() answers.
IsEdgeBlockedAt(edge_id, loaded, fails) ==
    IF ~loaded THEN [raised |-> FALSE, result |-> FALSE]
    ELSE LET body == IF GetLaneNumber \in fails THEN "raise"
                     ELSE LaneLoop(edge_id, 0, LaneNumber(edge_id), fails)
         IN  [raised |-> FALSE, result |-> body = "blocked"]

\* heapq.heappop: the least (cost, edge) pair.
HeapMin(pq) ==
    CHOOSE x \in pq : \A y \in pq : x[1] < y[1] \/ (x[1] = y[1] /\ x[2] <= y[2])

\* Mutant of Relax: the comparison of the costs is reversed (for the edges
\* that are not expanded yet).
RECURSIVE RelaxWorse(_, _, _, _, _, _)
RelaxWorse(s, u, current_cost, i, check_closures, sim) ==
    IF i > Len(graph[u]) THEN s
    ELSE LET v == graph[u][i]
             new_cost == current_cost + edges[u]
         IN  IF check_closures /\ IsEdgeBlocked(v, sim)
             THEN RelaxWorse(s, u, current_cost, i + 1, check_closures, sim)
             ELSE IF v \notin DOMAIN s.costs
                     \/ (new_cost > s.costs[v] /\ v \notin s.visited)
                  THEN RelaxWorse([s EXCEPT !.costs = (v :> new_cost) @@ s.costs,
                                            !.parents = (v :> u) @@ s.parents,
                                            !.pq = s.pq \cup {<<new_cost, v>>}],
                                  u, current_cost, i + 1, check_closures, sim)
                  ELSE RelaxWorse(s, u, current_cost, i + 1, check_closures, sim)

\* for v in self.graph[u], from the i-th neighbour on: s is the search state
\* [pq, costs, parents, visited].
RECURSIVE Relax(_, _, _, _, _, _)
Relax(s, u, current_cost, i, check_closures, sim) ==
    IF i > Len(graph[u]) THEN s
    ELSE LET v == graph[u][i]
             new_cost == current_cost + edges[u]
         IN  IF check_closures /\ IsEdgeBlocked(v, sim)
             THEN Relax(s, u, current_cost, i + 1, check_closures, sim)
             ELSE IF v \notin DOMAIN s.costs \/ new_cost < s.costs[v]
                  THEN Relax([s EXCEPT !.costs = (v :> new_cost) @@ s.costs,
                                       !.parents = (v :> u) @@ s.parents,
                                       !.pq = s.pq \cup {<<new_cost, v>>}],
                             u, current_cost, i + 1, check_closures, sim)
                  ELSE Relax(s, u, current_cost, i + 1, check_closures, sim)

\* while pq: ... (lines 98-122)
RECURSIVE Search(_, _, _, _)
Search(s, end_edge, check_closures, sim) ==
    IF s.pq = {} THEN s
    ELSE LET top == HeapMin(s.pq)
             u == top[2]
             popped == [s EXCEPT !.pq = s.pq \ {top}]
         IN  IF u = end_edge THEN popped
             ELSE IF u \in s.visited THEN Search(popped, end_edge, check_closures, sim)
             ELSE Search(Relax([popped EXCEPT !.visited = s.visited \cup {u}],
                               u, top[1], 1, check_closures, sim),
                         end_edge, check_closures, sim)

\* Mutant of PathTo: the path is not reversed.
RECURSIVE PathToBackwards(_, _)
PathToBackwards(parents, curr) ==
    IF curr = None THEN <<>> ELSE <<curr>> \o PathToBackwards(parents, parents[curr])

\* while curr: path.append(curr); curr = parents[curr] -- and path[::-1]
RECURSIVE PathTo(_, _)
PathTo(parents, curr) ==
    IF curr = None THEN <<>> ELSE PathTo(parents, parents[curr]) \o <<curr>>

\* Mutant of FindRoute: the path is rebuilt from the parent of the end edge.
FindRouteOpenEnded(start_edge, end_edge, check_closures, sim) ==
    IF start_edge \notin DOMAIN edges \/ end_edge \notin DOMAIN edges THEN <<>>
    ELSE LET s == Search([pq |-> {<<0, start_edge>>},
                          costs |-> (start_edge :> 0),
                          parents |-> (start_edge :> None),
                          visited |-> {}],
                         end_edge, check_closures, sim)
         IN  IF end_edge \notin DOMAIN s.parents THEN <<>>
             ELSE PathTo(s.parents, s.parents[end_edge])

\* find_route(start_edge, end_edge, check_closures)
FindRoute(start_edge, end_edge, check_closures, sim) ==
    IF start_edge \notin DOMAIN edges \/ end_edge \notin DOMAIN edges THEN <<>>
    ELSE LET s == Search([pq |-> {<<0, start_edge>>},
                          costs |-> (start_edge :> 0),
                          parents |-> (start_edge :> None),
                          visited |-> {}],
                         end_edge, check_closures, sim)
         IN  IF end_edge \notin DOMAIN s.parents THEN <<>>
             ELSE PathTo(s.parents, end_edge)

\* --------------------------------------------------------- RerouteBehaviour
\* remaining_time += 1e6 (line 229)
Penalty == 1000000
\* reroute_threshold_factor = 1.5 (line 340), as a fraction
FactorNum == 3
FactorDen == 2
\* max_allowed_delay = 20.0 (line 341)
MaxAllowedDelay == 20
\* The delays of a jammed edge, in seconds.
JamDelays == {12, 25}

\* What a tick meets: a jam and no failing query, no jam and the failures of
\* its first and of its second loop over edges, or a jam on the first edge
\* and the time queries failing in the second loop.
Conditions ==
    {<<j, "none", "none">> : j \in (Edges \X JamDelays)}
    \cup {<<<<0, 0>>, f, f>> : f \in {"none", "lanes", "traveltime", "times"}}
    \cup {<<<<0, 0>>, "length", "none">>, <<<<0, 0>>, "traveltime", "none">>,
          <<<<0, 0>>, "none", "lanes">>}
    \cup {<<<<1, d>>, "none", "times">> : d \in JamDelays}

\* No RerouteBehaviour tick has run.
NoReroute ==
    [agent |-> 0, cid |-> None, evaluated |-> FALSE, failed |-> FALSE,
     current |-> 0, jam |-> <<0, 0>>, fail1 |-> "none", fail2 |-> "none",
     remaining |-> <<>>,
     remaining_time |-> 0, ideal_time |-> 0, path_blocked |-> FALSE,
     triggered |-> FALSE, best |-> <<>>, min_cost |-> 0,
     command |-> FALSE, path |-> <<>>]

\* No agent has been constructed: nobody holds routes_lock (line 17) and no
\* vehicle has been rerouted (line 22).
LoadIdle ==
    /\ rerouted_vehicles = [a \in Agents |-> {}]
    /\ routes_lock = FALSE
    /\ ctor = [a \in Agents |-> "new"]

\* The class attributes as the module is imported (lines 15-16).
RerouteIdle ==
    /\ routes_by_dest = [d \in Edges |-> <<>>]
    /\ routes_loaded = FALSE
    /\ rr = NoReroute
    /\ LoadIdle

\* ------------------------------------------------------ the priority relay
\* A message body is a string: a sequence of tokens, each a piece of text
\* without a colon, or the colon itself.
Tokens == {"priority_request", ":", "V1", "J1", "J2"}

\* The bodies of the messages that reach the relay.
Bodies == UNION {[1..n -> Tokens] : n \in 0..MaxBody}

\* The intersections and the addresses of their controllers.
TlsIds == {"J1", "J2"}
Jids == {"tl1@localhost", "tl2@localhost"}

\* The dictionaries set_tls_mapping is called with: a set of <<key, value>>
\* with one value for a key.
Mappings ==
    {m \in SUBSET (TlsIds \X Jids) : \A p, q \in m : p[1] = q[1] => p = q}

\* A request message without a body and with one.
NoBody == [has_body |-> FALSE, body |-> <<>>]
Body(b) == [has_body |-> TRUE, body |-> b]

NoRelay == [step |-> "none", received |-> NoBody, sent |-> <<>>, raised |-> FALSE]

\* MonitoringAgent after setup(): no tls_mapping attribute, nothing received.
RelayIdle ==
    /\ tls_mapping = [has |-> FALSE, map |-> {}]
    /\ mailbox = <<>>
    /\ relay = NoRelay

\* ------------------------------------------------- the signal controller
\* The traffic lights traci.trafficlight.getIDList() answers, in its order.
TlList == <<"J1", "J2">>

\* The phases of a signal plan: 0 and 2 are green, 1 and 3 yellow.  A plan
\* has four phases, or two: one green and one yellow.
PlanLengths == {2, 4}
Phases(tl) == 0..(tl_plan[tl] - 1)
IsGreen(p) == p \in {0, 2}

\* The configuration of the phase state machine.
min_green == 10
max_green == 20

TRAFFIC_THRESHOLD == 5
TickPeriod == 5

\* The longest time in a phase that is told apart.
MaxElapsed == max_green + TickPeriod + 1

\* The most unread priority requests of a traffic light that are told apart.
MaxRequests == 1

\* No run of ControlBehaviour has been made.
NoRun == [ran |-> FALSE, counted |-> [t \in TlsIds |-> <<>>],
          meets |-> [t \in TlsIds |-> "ok"], commands |-> <<>>]

\* The simulation has just started: every plan is in its first phase.
SignalStart ==
    /\ tl_phase = [t \in TlsIds |-> 0]
    /\ tl_elapsed = [t \in TlsIds |-> 0]
    /\ tl_wait = 0
    /\ tl_alive = TRUE
    /\ tl_run = NoRun
    /\ tl_inbox = [t \in TlsIds |-> 0]

\* The network of the four-phase plans determine_next_phase assumes.
SignalIdle ==
    /\ SignalStart
    /\ tl_plan = [t \in TlsIds |-> 4]

\* No _is_edge_blocked call is in progress.
NoCall == [edge |-> None, loaded |-> FALSE, fails |-> {}, raised |-> FALSE, result |-> FALSE]

\* No CongestionPredictor has been constructed, and the data directory
\* holds no file.
NoPredictor ==
    [made |-> FALSE, fresh |-> FALSE, training_labels |-> <<>>, is_trained |-> FALSE,
     total_samples_collected |-> 0, total_trainings |-> 0]

NoFiles ==
    [data |-> FALSE, labels |-> <<>>, total_samples_collected |-> 0,
     total_trainings |-> 0, model |-> FALSE]

\* The ambulances the manager can come to spawn: ambulance_0, ambulance_1, ...
MaxSpawns == 3
AmbulanceIds == 0..(MaxSpawns - 1)

\* AmbulanceManagerAgent.__init__ (lines 10-12), no behaviour running.  sim is
\* what the simulation holds of each ambulance: "none" (never added),
\* "pending" (added, not yet in the id list), "running", "arrived" (in the
\* arrived list of this step) or "gone".  young: the tracked ambulances whose
\* grace period is not over.  pc, view, size, todo and finished are the
\* position and the locals of MonitorAmbulanceBehaviour.run; spawned is the
\* list of the ids of the ambulances added so far.
NoAmbulances ==
    [active_ambulances |-> {}, ambulance_counter |-> 0, young |-> {},
     sim |-> [v \in AmbulanceIds |-> "none"],
     pc |-> "idle", view |-> [v \in AmbulanceIds |-> "none"], size |-> 0,
     todo |-> <<>>, finished |-> {}, target |-> "", spawned |-> <<>>]

\* The ManualDisruptionBehaviour instances the panel can come to add.
NumManual == 1
Behaviours == 0..NumManual

\* DisruptionAgent before any closure: behaviour 0 is the cyclic
\* DisruptionBehaviour, the others are ManualDisruptionBehaviour instances
\* not yet added.  pc is "idle", "closed" (in the sleep after the closing) or
\* "open" (after the reopening); lane is the lane it was given or drew, holds
\* the lanes its closing has closed.
NoDisruptions == [b \in Behaviours |-> [pc |-> "idle", lane |-> None, holds |-> {}]]

OthersIdle ==
    /\ blocked = NoCall
    /\ predictor = NoPredictor
    /\ disk = NoFiles
    /\ ambulance_manager = NoAmbulances
    /\ disruptions = NoDisruptions

PeersIdle == RelayIdle /\ SignalIdle /\ OthersIdle

\* ------------------------------------------------------------ specification
CarsIdle ==
    /\ active = {}
    /\ route = [v \in Vehicles |-> <<>>]
    /\ closed = {}
    /\ claimed_vehicles = {}
    /\ vehicle_id = [a \in Agents |-> None]
    /\ ev = NoEvent
    /\ pc = [a \in Agents |-> "idle"]
    /\ car_ids = [a \in Agents |-> <<>>]
    /\ FinderIdle
    /\ RerouteIdle

Init ==
    /\ CarsIdle
    /\ PeersIdle

Next ==
    \/ \E a \in Agents : CarInfoRun(a)
    \/ Simulation

Spec == Init /\ [][Next]_vars

TypeOK ==
    /\ active \subseteq Vehicles
    /\ claimed_vehicles \subseteq Vehicles
    /\ vehicle_id \in [Agents -> Vehicles \cup {None}]

\* ------------------------------- CarInfoBehaviour.run under threads, by steps
\* Each agent's run() is cut at the claim_lock regions: a step is one region
\* (atomic under the lock) or the code between two regions.  pc[a] is where
\* agent a's thread stands: "idle" (between ticks), "scan" (before the region
\* of lines 100-111), "check" (before line 114), "monitor" (before line 127),
\* "release" (before the region of lines 120-122 or 155-157), "clear" (before
\* vehicle_id = None, line 123 or 158).
ThreadEvent(raised) ==
    [Event("thread", 0) EXCEPT !.avail = TRUE, !.raised = raised, !.failed = raised]

Goto(a, label) == pc' = [pc EXCEPT ![a] = label]

\* The end of run(): its local car_ids is gone.
Return(a) ==
    /\ pc' = [pc EXCEPT ![a] = "idle"]
    /\ car_ids' = [car_ids EXCEPT ![a] = <<>>]

\* Lines 94-99: isLoaded, the test of vehicle_id, car_ids = getIDList().
T_Begin(a) ==
    /\ UNCHANGED <<finderVars, rerouteVars, peerVars>>
    /\ pc[a] = "idle"
    /\ \/ \* not traci.isLoaded(): return
          /\ ev' = ThreadEvent(FALSE)
          /\ UNCHANGED <<simVars, claimed_vehicles, vehicle_id, threadVars>>
       \/ /\ vehicle_id[a] = None
          /\ \/ \* getIDList raises at line 99
                /\ ev' = ThreadEvent(TRUE)
                /\ UNCHANGED <<simVars, claimed_vehicles, vehicle_id, threadVars>>
             \/ /\ car_ids' = [car_ids EXCEPT ![a] = IDList]
                /\ Goto(a, "scan")
                /\ ev' = ThreadEvent(FALSE)
                /\ UNCHANGED <<simVars, claimed_vehicles, vehicle_id>>
       \/ /\ vehicle_id[a] # None
          /\ Goto(a, "check")
          /\ ev' = ThreadEvent(FALSE)
          /\ UNCHANGED <<simVars, claimed_vehicles, vehicle_id, car_ids>>

\* The ways the getTypeID queries of the scan of ids can fail: the query of
\* an id that has left the simulation meanwhile raises, and one more may.
ScanFailures(ids) ==
    {typeFails \cup (Vehicles \ active) : typeFails \in {{}} \cup {{v} : v \in Range(ids)}}

\* Lines 100-111, under claim_lock: the scan of the local car_ids.
T_Scan(a) ==
    /\ UNCHANGED <<finderVars, rerouteVars, peerVars>>
    /\ pc[a] = "scan"
    /\ \E typeFails \in ScanFailures(car_ids[a]) :
         LET cid == ClaimScan(car_ids[a], claimed_vehicles, typeFails)
         IN  /\ vehicle_id' = [vehicle_id EXCEPT ![a] = cid]
             /\ claimed_vehicles' =
                    IF cid = None THEN claimed_vehicles ELSE claimed_vehicles \cup {cid}
    /\ Goto(a, "check")
    /\ ev' = ThreadEvent(FALSE)
    /\ UNCHANGED <<simVars, car_ids>>

\* Lines 113-119: return if no vehicle was claimed; else, is the vehicle
\* still in the id list?
T_Check(a) ==
    /\ UNCHANGED <<finderVars, rerouteVars, peerVars>>
    /\ pc[a] = "check"
    /\ \/ /\ vehicle_id[a] = None
          /\ Return(a)
          /\ ev' = ThreadEvent(FALSE)
       \/ \* getIDList raises at line 118
          /\ vehicle_id[a] # None
          /\ Return(a)
          /\ ev' = ThreadEvent(TRUE)
       \/ /\ vehicle_id[a] # None
          /\ Goto(a, IF vehicle_id[a] \notin active THEN "release" ELSE "monitor")
          /\ car_ids' = [car_ids EXCEPT ![a] = <<>>]
          /\ ev' = ThreadEvent(FALSE)
    /\ UNCHANGED <<simVars, claimed_vehicles, vehicle_id>>

\* Lines 126-154: the check of the final edge and the remove command.  The
\* simulation runs beside the threads: the lane queries answer with whatever
\* lanes are closed at that moment.
T_Monitor(a) ==
    /\ UNCHANGED <<finderVars, rerouteVars, peerVars>>
    /\ pc[a] = "monitor"
    /\ LET cid == vehicle_id[a] IN
       \/ \* a query or the remove command raises (it does for a vehicle that
          \* has left the simulation): caught at line 161
          /\ Return(a)
          /\ ev' = ThreadEvent(FALSE)
          /\ UNCHANGED <<simVars, claimed_vehicles, vehicle_id>>
       \/ /\ cid \in active
          /\ \E current_idx \in RouteIndexValues(route[cid]) :
               LET r == route[cid]
                   final == /\ current_idx >= 0 /\ current_idx + 1 < Len(r)
                            /\ r[current_idx + 2] = r[Len(r)]
                   answers == IF final
                              THEN {AllLanesClosedIn(cl, r[current_idx + 2]) :
                                      cl \in SUBSET ClosableLanes}
                              ELSE {FALSE}
               IN
               \E is_closed \in answers :
               IF final /\ is_closed
               THEN /\ active' = active \ {cid}
                    /\ route' = [route EXCEPT ![cid] = <<>>]
                    /\ Goto(a, "release")
                    /\ UNCHANGED car_ids
               ELSE /\ Return(a)
                    /\ UNCHANGED <<active, route>>
          /\ ev' = ThreadEvent(FALSE)
          /\ UNCHANGED <<closed, claimed_vehicles, vehicle_id>>

\* Lines 120-122 and 155-157, under claim_lock: the guarded remove.
T_Release(a) ==
    /\ UNCHANGED <<finderVars, rerouteVars, peerVars>>
    /\ pc[a] = "release"
    /\ LET rel == Release(claimed_vehicles, vehicle_id[a]) IN
       /\ claimed_vehicles' = IF rel.raised THEN claimed_vehicles ELSE rel.set
       /\ Goto(a, IF rel.raised THEN "idle" ELSE "clear")
       /\ ev' = ThreadEvent(rel.raised)
    /\ UNCHANGED <<simVars, vehicle_id, car_ids>>

\* Lines 123-124 and 158-159: self.agent.vehicle_id = None, outside the lock.
T_Clear(a) ==
    /\ UNCHANGED <<finderVars, rerouteVars, peerVars>>
    /\ pc[a] = "clear"
    /\ vehicle_id' = [vehicle_id EXCEPT ![a] = None]
    /\ Goto(a, "idle")
    /\ ev' = ThreadEvent(FALSE)
    /\ UNCHANGED <<simVars, claimed_vehicles, car_ids>>

NextThreads ==
    \/ \E a \in Agents : T_Begin(a)
    \/ \E a \in Agents : T_Scan(a)
    \/ \E a \in Agents : T_Check(a)
    \/ \E a \in Agents : T_Monitor(a)
    \/ \E a \in Agents : T_Release(a)
    \/ \E a \in Agents : T_Clear(a)
    \/ \E v \in ContendedVehicles : Depart(v)
    \/ \E v \in Vehicles : Vanish(v)

SpecThreads == Init /\ [][NextThreads]_vars

\* --------------------------------------------- the release step on its own
\* The release step (T_Release, then T_Clear) from any registry and any ids:
\* two agents with the same id release it twice, an agent whose id is not in
\* the registry releases an id that is not claimed.
InitRelease ==
    /\ active = {}
    /\ route = [v \in Vehicles |-> <<>>]
    /\ closed = {}
    /\ claimed_vehicles \in SUBSET Vehicles
    /\ vehicle_id \in [Agents -> Vehicles]
    /\ ev = NoEvent
    /\ pc = [a \in Agents |-> "release"]
    /\ car_ids = [a \in Agents |-> <<>>]
    /\ FinderIdle
    /\ RerouteIdle
    /\ PeersIdle

NextRelease ==
    \/ \E a \in Agents : T_Release(a)
    \/ \E a \in Agents : T_Clear(a)

SpecRelease == InitRelease /\ [][NextRelease]_vars

\* ------------------------------------------- RouteFinder: parsing and calls
carVars == <<active, route, claimed_vehicles, vehicle_id, ev, pc, car_ids>>

\* One <connection> element of the network file (lines 39-47).  from_edge or
\* to_edge 0: an edge that is not in self.edges (an internal edge).  A
\* connection of the network joins two different edges.
AddConnection(from_edge, to_edge) ==
    /\ ~parsed
    /\ Cardinality({c \in Edges \X Edges : c[2] \in Range(graph[c[1]])}) < MaxConnections
    /\ graph' = IF from_edge \in DOMAIN edges /\ to_edge \in DOMAIN edges
                   /\ to_edge \notin Range(graph[from_edge])
                THEN [graph EXCEPT ![from_edge] = Append(@, to_edge)]
                ELSE graph
    /\ UNCHANGED <<edges, parsed, query, closed, carVars, rerouteVars, peerVars>>

\* RouteFinder.__init__ returns.
FinishParse ==
    /\ ~parsed
    /\ parsed' = TRUE
    /\ UNCHANGED <<edges, graph, query, closed, carVars, rerouteVars, peerVars>>

\* Mutant of FindRouteCall: the call drops from the adjacency lists the edges
\* it finds blocked.
FindRouteCallPruning(start_edge, end_edge, check_closures, sim) ==
    /\ parsed
    /\ query = NoQuery
    /\ query' = [start |-> start_edge, end |-> end_edge, check |-> check_closures,
                 sim |-> sim,
                 path |-> FindRoute(start_edge, end_edge, check_closures, sim)]
    /\ graph' = [u \in DOMAIN graph |->
                   SelectSeq(graph[u], LAMBDA v : ~(check_closures /\ IsEdgeBlocked(v, sim)))]
    /\ UNCHANGED <<edges, parsed, closed, carVars, rerouteVars, peerVars>>

\* A call of find_route: its arguments, what the simulation answers to the
\* lane queries during the call, and the path it returns.
FindRouteCall(start_edge, end_edge, check_closures, sim) ==
    /\ parsed
    /\ query = NoQuery
    /\ query' = [start |-> start_edge, end |-> end_edge, check |-> check_closures,
                 sim |-> sim,
                 path |-> FindRoute(start_edge, end_edge, check_closures, sim)]
    /\ UNCHANGED <<edges, graph, parsed, closed, carVars, rerouteVars, peerVars>>

\* A call that learns nothing of the lanes (check_closures is false, or the
\* simulation does not answer): its result does not depend on the closed
\* lanes, and it is taken where they would matter most, with every closable
\* lane closed.
FindRouteCallBlind(start_edge, end_edge, check_closures, sim) ==
    /\ query = NoQuery
    /\ closed = ClosableLanes
    /\ FindRouteCall(start_edge, end_edge, check_closures, sim)

\* The call returns.
FindRouteReturn ==
    /\ query # NoQuery
    /\ query' = NoQuery
    /\ UNCHANGED <<edges, graph, parsed, closed, carVars, rerouteVars, peerVars>>

\* A disruption closes or reopens lane 0 of an edge, between two calls.
FinderSetDisallowed(l) ==
    /\ query = NoQuery
    /\ SetDisallowed(l)

NextRoute ==
    \/ \E f, t \in Edges \cup {0} : f # t /\ AddConnection(f, t)
    \/ FinishParse
    \/ \E s, t \in Edges : FindRouteCall(s, t, TRUE, "ok")
    \/ \E s, t \in Edges :
            \/ FindRouteCallBlind(s, t, FALSE, "ok")
            \/ \E sim \in {"raises", "unloaded"} : FindRouteCallBlind(s, t, TRUE, sim)
    \/ \E e \in Edges \cup {0} : FindRouteCall(0, e, TRUE, "ok") \/ FindRouteCall(e, 0, TRUE, "ok")
    \/ FindRouteReturn
    \/ \E l \in Lanes : FinderSetDisallowed(l)

SpecRoute == Init /\ [][NextRoute]_vars

\* ------------------------------------------- _is_edge_blocked, call by call
\* A call of _is_edge_blocked on an edge of the network.
IsEdgeBlockedCall(edge_id, loaded, fails) ==
    /\ blocked = NoCall
    /\ LET r == IsEdgeBlockedAt(edge_id, loaded, fails)
       IN  blocked' = [edge |-> edge_id, loaded |-> loaded, fails |-> fails,
                       raised |-> r.raised, result |-> r.result]
    /\ UNCHANGED <<simVars, carVars, finderVars, rerouteVars, relayVars, signalVars, predVars,
                   ambulance_manager, disruptions>>

\* The call returns.
IsEdgeBlockedReturn ==
    /\ blocked # NoCall
    /\ blocked' = NoCall
    /\ UNCHANGED <<simVars, carVars, finderVars, rerouteVars, relayVars, signalVars, predVars,
                   ambulance_manager, disruptions>>

\* Something outside the route finder closes or reopens a lane, between two
\* calls.
LaneSetDisallowed(l) ==
    /\ blocked = NoCall
    /\ closed' = IF l \in closed THEN closed \ {l} ELSE closed \cup {l}
    /\ UNCHANGED <<active, route, carVars, finderVars, rerouteVars, peerVars>>

NextBlocked ==
    \/ \E e \in Edges, loaded \in BOOLEAN : \E fails \in LaneFailures(e) :
           IsEdgeBlockedCall(e, loaded, fails)
    \/ IsEdgeBlockedReturn
    \/ \E l \in Lanes : LaneSetDisallowed(l)

SpecBlocked == Init /\ [][NextBlocked]_vars

\* ------------------------------------------------------ CongestionPredictor
\* The samples one data directory comes to hold, and the trainings counted.
MaxSamples == 3
MaxTrainings == 2
\* The constructor argument min_samples_to_train of the predictors.
min_samples_to_train == 2

\* What the program outside the predictor and its files keeps.
PredictorFrame ==
    UNCHANGED <<simVars, carVars, finderVars, rerouteVars, relayVars, signalVars, blocked,
                ambulance_manager, disruptions>>

\* load_data (lines 312-350) on the object p: fails is "none", "json" (the
\* read of training_data.json raises) or "pickle" (the read of model.pkl
\* raises).
load_data(p, fails) ==
    LET q == IF disk.data /\ fails # "json"
             THEN [p EXCEPT !.training_labels = disk.labels,
                            !.total_samples_collected = disk.total_samples_collected,
                            !.total_trainings = disk.total_trainings]
             ELSE p
    IN  IF disk.data /\ fails = "json" THEN p
        ELSE IF disk.model /\ fails # "pickle" THEN [q EXCEPT !.is_trained = TRUE]
        ELSE q

\* save_data (lines 266-310) of the object p: the files it leaves.
save_data(p, fails) ==
    IF fails = "json" THEN disk
    ELSE LET d == [disk EXCEPT !.data = TRUE, !.labels = p.training_labels,
                               !.total_samples_collected = p.total_samples_collected,
                               !.total_trainings = p.total_trainings]
         IN  IF p.is_trained /\ fails # "pickle" THEN [d EXCEPT !.model = TRUE] ELSE d

FileFailures == {"none", "json", "pickle"}

\* CongestionPredictor(...): lines 45-67.
Construct(fails) ==
    /\ predictor' = load_data([NoPredictor EXCEPT !.made = TRUE, !.fresh = TRUE], fails)
    /\ UNCHANGED disk
    /\ PredictorFrame

\* add_sample(features, label): lines 141-143.
AddSample(label) ==
    /\ predictor.made
    /\ Len(predictor.training_labels) < MaxSamples
    /\ predictor' = [predictor EXCEPT !.fresh = FALSE,
                                      !.training_labels = Append(@, label),
                                      !.total_samples_collected = @ + 1]
    /\ UNCHANGED disk
    /\ PredictorFrame

\* train(): lines 159-193.  fit_fails: the fit of the scaler or of the model
\* raises.
Train(fit_fails, fails) ==
    /\ predictor.made
    /\ predictor.total_trainings < MaxTrainings
    /\ IF Len(predictor.training_labels) < min_samples_to_train
          \/ Cardinality(Range(predictor.training_labels)) < 2
          \/ fit_fails
       THEN /\ predictor' = [predictor EXCEPT !.fresh = FALSE]
            /\ UNCHANGED disk
       ELSE LET p == [predictor EXCEPT !.fresh = FALSE, !.is_trained = TRUE,
                                       !.total_trainings = @ + 1]
            IN  /\ predictor' = p
                /\ disk' = save_data(p, fails)
    /\ PredictorFrame

\* save_data() called from outside train().
SaveData(fails) ==
    /\ predictor.made
    /\ predictor' = [predictor EXCEPT !.fresh = FALSE]
    /\ disk' = save_data(predictor, fails)
    /\ PredictorFrame

\* clear_data(): lines 359-366; the object keeps what it holds.
ClearData ==
    /\ predictor.made
    /\ predictor' = [predictor EXCEPT !.fresh = FALSE]
    /\ disk' = NoFiles
    /\ PredictorFrame

NextPredictor ==
    \/ \E fails \in FileFailures : Construct(fails)
    \/ \E label \in {0, 1} : AddSample(label)
    \/ \E fit_fails \in BOOLEAN, fails \in FileFailures : Train(fit_fails, fails)
    \/ \E fails \in FileFailures : SaveData(fails)
    \/ ClearData

SpecPredictor == Init /\ [][NextPredictor]_vars

\* ------------------------------------------------- AmbulanceManagerAgent
\* Both behaviours are coroutines of the agent's event loop: a run goes on
\* alone up to its next await.  SpawnAmbulanceBehaviour.run has none;
\* MonitorAmbulanceBehaviour.run has the send of line 79.

\* What the program outside the ambulance manager keeps; the traffic lights
\* keep all but their inboxes.
AmbulanceFrame ==
    UNCHANGED <<simVars, carVars, finderVars, rerouteVars, relayVars, blocked, predVars,
                disruptions>>

SignalsKept == UNCHANGED <<tl_phase, tl_elapsed, tl_wait, tl_alive, tl_plan, tl_run>>

\* The successful add of the ambulance with the next id (lines 27-31).
Spawned(m) ==
    LET veh_id == m.ambulance_counter IN
    [m EXCEPT !.sim[veh_id] = "pending",
              !.active_ambulances = @ \cup {veh_id},
              !.young = @ \cup {veh_id},
              !.ambulance_counter = @ + 1,
              !.spawned = Append(@, veh_id)]

\* Mutant of SpawnAmbulance: the test of line 22 is left out.
SpawnAmbulanceAlways ==
    /\ ambulance_manager.pc \in {"idle", "send"}
    /\ ambulance_manager.ambulance_counter < MaxSpawns
    /\ ambulance_manager' = Spawned(ambulance_manager)
    /\ UNCHANGED tl_inbox /\ SignalsKept /\ AmbulanceFrame

\* SpawnAmbulanceBehaviour.run (lines 15-36), a run that reaches the add and
\* whose add does not raise.  The other runs change nothing.
SpawnAmbulance ==
    /\ ambulance_manager.pc \in {"idle", "send"}
    /\ ambulance_manager.ambulance_counter < MaxSpawns
    /\ Cardinality(ambulance_manager.active_ambulances) < 1
    /\ ambulance_manager' = Spawned(ambulance_manager)
    /\ UNCHANGED tl_inbox /\ SignalsKept /\ AmbulanceFrame

\* Lines 40-50: the id lists are read and the loop over the items begins.
MonitorBegin ==
    /\ ambulance_manager.pc = "idle"
    /\ ambulance_manager' =
          [ambulance_manager EXCEPT !.pc = "loop", !.view = ambulance_manager.sim,
                                    !.size = Cardinality(ambulance_manager.active_ambulances),
                                    !.todo = SortedSeq(ambulance_manager.active_ambulances),
                                    !.finished = {}]
    /\ UNCHANGED tl_inbox /\ SignalsKept /\ AmbulanceFrame

\* What getNextTLS and tls_mapping.get give for a running ambulance: "" when
\* the query raises, no traffic light is ahead or within 150 m, or the one
\* ahead has no agent; else the traffic light to write to.
Targets == {""} \cup TlsIds

\* Lines 52-81: one item of the loop, up to the send of line 79.
MonitorItem(target) ==
    LET m == ambulance_manager
        veh_id == Head(m.todo)
        next == [m EXCEPT !.todo = Tail(m.todo)]
    IN
    /\ m.pc = "loop"
    /\ m.todo # <<>>
    /\ ambulance_manager' =
          IF Cardinality(m.active_ambulances) # m.size
          THEN \* dictionary changed size during iteration: run() is left
               [m EXCEPT !.pc = "idle", !.todo = <<>>, !.finished = {}]
          ELSE IF m.view[veh_id] = "arrived"
          THEN [next EXCEPT !.finished = @ \cup {veh_id}]
          ELSE IF m.view[veh_id] # "running"
          THEN IF veh_id \in m.young THEN next
               ELSE [next EXCEPT !.finished = @ \cup {veh_id}]
          ELSE IF target = "" THEN next
          ELSE [m EXCEPT !.pc = "send", !.target = target]
    /\ UNCHANGED tl_inbox /\ SignalsKept /\ AmbulanceFrame

\* Line 79: the send is over; the message stands in the inbox of the
\* traffic light (counted up to MaxRequests).
MonitorSent ==
    LET m == ambulance_manager IN
    /\ m.pc = "send"
    /\ tl_inbox' = [tl_inbox EXCEPT ![m.target] = IF @ < MaxRequests THEN @ + 1 ELSE @]
    /\ ambulance_manager' = [m EXCEPT !.pc = "loop", !.target = "", !.todo = Tail(m.todo)]
    /\ SignalsKept /\ AmbulanceFrame

\* Lines 83-86: the finished ambulances are dropped.
MonitorEnd ==
    LET m == ambulance_manager IN
    /\ m.pc = "loop"
    /\ m.todo = <<>>
    /\ ambulance_manager' =
          [m EXCEPT !.pc = "idle", !.finished = {},
                    !.active_ambulances = @ \ m.finished,
                    !.young = @ \ m.finished]
    /\ UNCHANGED tl_inbox /\ SignalsKept /\ AmbulanceFrame

\* The simulation and the clock, while no run of the manager is under way:
\* an added ambulance departs or is dropped, a running one arrives, the
\* arrived list is renewed, a grace period ends.
AmbulanceMoves(v) ==
    LET m == ambulance_manager IN
    /\ m.pc # "loop"
    /\ \/ /\ m.sim[v] = "pending"
          /\ \E to \in {"running", "gone"} : ambulance_manager' = [m EXCEPT !.sim[v] = to]
       \/ /\ m.sim[v] = "running"
          /\ ambulance_manager' = [m EXCEPT !.sim[v] = "arrived"]
       \/ /\ m.sim[v] = "arrived"
          /\ ambulance_manager' = [m EXCEPT !.sim[v] = "gone"]
       \/ /\ v \in m.young
          /\ ambulance_manager' = [m EXCEPT !.young = @ \ {v}]
    /\ UNCHANGED tl_inbox /\ SignalsKept /\ AmbulanceFrame

NextAmbulance ==
    \/ SpawnAmbulance
    \/ MonitorBegin
    \/ \E target \in Targets : MonitorItem(target)
    \/ MonitorSent
    \/ MonitorEnd
    \/ \E v \in AmbulanceIds : AmbulanceMoves(v)

SpecAmbulance == Init /\ [][NextAmbulance]_vars

\* ------------------------------------------------------- DisruptionAgent
\* The lanes a disruption can name: lane 0 of an edge ("E3_0") or of the edge
\* of the opposite direction ("-E3_0", here the edge -3).
DisruptionLanes == {<<e, 0>> : e \in Edges} \cup {<<-e, 0>> : e \in Edges}

\* LANE_LIST, lines 7-11: the cyclic behaviour draws from the forward lanes.
LANE_LIST == {<<e, 0>> : e \in Edges}

\* Line 23: "-" is put in front of the lane id, or taken from it.
Opposite(l) == <<-l[1], l[2]>>

\* How many setDisallowed calls of a closing or of a reopening are made
\* before a call raises, or before the end.
Progress == {0, 1, 2}

Written(l, n) == IF n = 0 THEN {} ELSE IF n = 1 THEN {l} ELSE {l, Opposite(l)}

\* What the program outside the disruption agent and the lanes keeps.
DisruptionFrame ==
    UNCHANGED <<active, route, carVars, finderVars, rerouteVars, relayVars, signalVars,
                blocked, predVars, ambulance_manager>>

\* DisruptionBehaviour.run, lines 91-126, and ManualDisruptionBehaviour.run,
\* lines 20-43: the closing of lane l and of the opposite lane.  raised says
\* that a call of the try block raised (with n = 2: the last toggleSelection).
\* A manual behaviour whose closing raises returns; the cyclic one sleeps all
\* the same.
Close(b, l, n, raised) ==
    /\ disruptions[b].pc = "idle"
    /\ b = 0 => l \in LANE_LIST
    /\ n < 2 => raised
    /\ closed' = closed \cup Written(l, n)
    /\ disruptions' = [disruptions EXCEPT ![b] =
                          IF b # 0 /\ raised THEN NoDisruptions[b]
                          ELSE [pc |-> "closed", lane |-> l, holds |-> Written(l, n)]]
    /\ DisruptionFrame

\* Lines 129-146 and 46-64, after the sleep: 'passenger' is taken from the
\* disallowed classes of the lane and of the opposite lane, as far as the
\* calls get (not at all when isLoaded() is false).  The manual behaviour is
\* over; the cyclic one sleeps open_duration.
Reopen(b, n) ==
    /\ disruptions[b].pc = "closed"
    /\ closed' = closed \ Written(disruptions[b].lane, n)
    /\ disruptions' = [disruptions EXCEPT ![b] =
                          IF b = 0 THEN [pc |-> "open", lane |-> None, holds |-> {}]
                          ELSE NoDisruptions[b]]
    /\ DisruptionFrame

\* Line 148: the sleep of open_duration is over; run() is called again.
Rest ==
    /\ disruptions[0].pc = "open"
    /\ disruptions' = [disruptions EXCEPT ![0].pc = "idle"]
    /\ UNCHANGED closed
    /\ DisruptionFrame

NextDisruption ==
    \/ \E b \in Behaviours, l \in DisruptionLanes, n \in Progress, raised \in BOOLEAN : Close(b, l, n, raised)
    \/ \E b \in Behaviours, n \in Progress : Reopen(b, n)
    \/ Rest

SpecDisruption == Init /\ [][NextDisruption]_vars

\* ------------------------------------------------ RerouteBehaviour.run, a tick
\* getLength(e) / max(0.1, getMaxSpeed(e)), in seconds.
FreeFlow(e) == 5 * Length(e)

\* The traffic during a tick: no jam, or one edge whose travel time is its
\* free-flow time and a delay.
Jams == {<<0, 0>>} \cup (Edges \X JamDelays)

\* traci.edge.getTraveltime(e)
Traveltime(e, jam) == FreeFlow(e) + (IF jam[1] = e THEN jam[2] ELSE 0)

\* Which queries raise during one of the two loops over edges: none, the lane
\* queries (getLaneNumber, getDisallowed), getTraveltime, getLength and
\* getMaxSpeed, or both kinds of time queries.
Failures == {"none", "lanes", "traveltime", "length", "times"}

\* Mutant of FoundBlocked: every edge counts as open.
FoundBlockedNever(e, fail) == FALSE

\* The edge is found blocked: the lane queries answer and every lane
\* disallows passenger.  When they raise the edge counts as open.
FoundBlocked(e, fail) == fail # "lanes" /\ AllLanesClosed(e)

\* float(getTraveltime(edge)), else length / speed, else 0.0
EdgeTime(e, jam, fail) ==
    IF fail \in {"none", "lanes", "length"} THEN Traveltime(e, jam)
    ELSE IF fail = "traveltime" THEN FreeFlow(e)
    ELSE 0

\* length / speed, else 0.0
EdgeIdeal(e, fail) == IF fail \in {"length", "times"} THEN 0 ELSE FreeFlow(e)

\* Lines 211-243: the loop over remaining_edges.
RECURSIVE RemainingTime(_, _, _)
RemainingTime(path, jam, fail) ==
    IF path = <<>> THEN 0
    ELSE (IF FoundBlocked(Head(path), fail) THEN Penalty ELSE 0)
         + EdgeTime(Head(path), jam, fail) + RemainingTime(Tail(path), jam, fail)

RECURSIVE IdealTime(_, _)
IdealTime(path, fail) ==
    IF path = <<>> THEN 0 ELSE EdgeIdeal(Head(path), fail) + IdealTime(Tail(path), fail)

PathBlocked(path, fail) == \E i \in 1..Len(path) : FoundBlocked(path[i], fail)

\* Line 250: the decision to look for another route.
ShouldReroute(remaining_time, ideal_time, path_blocked) ==
    \/ ideal_time > 0 /\ FactorDen * remaining_time > FactorNum * ideal_time
    \/ remaining_time - ideal_time > MaxAllowedDelay
    \/ path_blocked

\* list.index: the first position of x in q, 0 when x is not in q.
IndexOf(q, x) ==
    IF x \in Range(q) THEN Min({i \in 1..Len(q) : q[i] = x}) ELSE 0

\* Mutant of CandidatePath: the route is not cut at the current edge.
CandidatePathWhole(full_route, current_edge) == full_route

\* Lines 263-264: full_route[full_route.index(current_edge):]
CandidatePath(full_route, current_edge) ==
    SubSeq(full_route, IndexOf(full_route, current_edge), Len(full_route))

\* Lines 270-297: the cost of a candidate, for one that is not found blocked.
RECURSIVE CandidateCost(_, _, _)
CandidateCost(path, jam, fail) ==
    IF path = <<>> THEN 0
    ELSE EdgeTime(Head(path), jam, fail) + CandidateCost(Tail(path), jam, fail)

\* Mutant of SelectBest: a candidate of equal cost replaces the best one.
RECURSIVE SelectBestLast(_, _, _, _, _)
SelectBestLast(routes, current_edge, jam, fail, best) ==
    IF routes = <<>> THEN best
    ELSE LET full_route == Head(routes)
             candidate_path == CandidatePath(full_route, current_edge)
             candidate_cost == CandidateCost(candidate_path, jam, fail)
         IN  IF current_edge \notin Range(full_route)
                \/ PathBlocked(candidate_path, fail)
                \/ ~(~best.found \/ candidate_cost <= best.min_cost)
             THEN SelectBestLast(Tail(routes), current_edge, jam, fail, best)
             ELSE SelectBestLast(Tail(routes), current_edge, jam, fail,
                                 [found |-> TRUE, min_cost |-> candidate_cost,
                                  best_route |-> candidate_path])

\* Lines 258-304: for full_route in potential_full_routes.  best: found is
\* false while min_cost is inf and best_route is None.
RECURSIVE SelectBest(_, _, _, _, _)
SelectBest(routes, current_edge, jam, fail, best) ==
    IF routes = <<>> THEN best
    ELSE LET full_route == Head(routes)
             candidate_path == CandidatePath(full_route, current_edge)
             candidate_cost == CandidateCost(candidate_path, jam, fail)
         IN  IF current_edge \notin Range(full_route)
                \/ PathBlocked(candidate_path, fail)
                \/ ~(~best.found \/ candidate_cost < best.min_cost)
             THEN SelectBest(Tail(routes), current_edge, jam, fail, best)
             ELSE SelectBest(Tail(routes), current_edge, jam, fail,
                             [found |-> TRUE, min_cost |-> candidate_cost,
                              best_route |-> candidate_path])

NoBest == [found |-> FALSE, min_cost |-> 0, best_route |-> <<>>]

\* Mutant of ShouldApply: the cost of the best route is not looked at.
ShouldApplyAnyCost(path_blocked, min_cost, remaining_time, best_route, remaining_edges, is_tuple) ==
    is_tuple \/ best_route # remaining_edges

\* Lines 313-319: should_switch and best_route != remaining_edges.  best_route
\* is a list; remaining_edges is a slice of what getRoute answered, and a list
\* never equals a tuple.
ShouldApply(path_blocked, min_cost, remaining_time, best_route, remaining_edges, is_tuple) ==
    /\ path_blocked \/ 10 * min_cost < 9 * remaining_time
    /\ is_tuple \/ best_route # remaining_edges

\* Line 322, reached when the setRoute of line 321 has not raised.
AddReroutedUnchecked(r) ==
    IF r.command THEN [rerouted_vehicles EXCEPT ![r.agent] = @ \cup {r.cid}]
    ELSE rerouted_vehicles

AddRerouted(r) ==
    IF r.command /\ ~r.failed THEN [rerouted_vehicles EXCEPT ![r.agent] = @ \cup {r.cid}]
    ELSE rerouted_vehicles

\* The end of a RerouteBehaviour tick: the vehicle's route and the record.
RerouteDone(new_route, r) ==
    /\ route' = new_route
    /\ rr' = r
    /\ rerouted_vehicles' = AddRerouted(r)
    /\ UNCHANGED <<active, closed, claimed_vehicles, vehicle_id, ev, threadVars,
                   finderVars, peerVars, routes_by_dest, routes_loaded, loadVars>>

\* Lines 205-325, for a vehicle on current_edge of its route.
Evaluate(a, cid, current_edge, jam, fail1, fail2, is_tuple) ==
    LET r == route[cid]
        route_index == IF current_edge \in Range(r) THEN IndexOf(r, current_edge) ELSE 1
        remaining_edges == SubSeq(r, route_index, Len(r))
        remaining_time == RemainingTime(remaining_edges, jam, fail1)
        ideal_time == IdealTime(remaining_edges, fail1)
        path_blocked == PathBlocked(remaining_edges, fail1)
        triggered == ShouldReroute(remaining_time, ideal_time, path_blocked)
        best == IF triggered
                THEN SelectBest(routes_by_dest[r[Len(r)]], current_edge, jam, fail2, NoBest)
                ELSE NoBest
        apply == /\ best.found
                 /\ ShouldApply(path_blocked, best.min_cost, remaining_time,
                                best.best_route, remaining_edges, is_tuple)
        e == [NoReroute EXCEPT !.agent = a, !.cid = cid, !.evaluated = TRUE,
                 !.current = current_edge, !.jam = jam,
                 !.fail1 = fail1, !.fail2 = fail2,
                 !.remaining = remaining_edges,
                 !.remaining_time = remaining_time, !.ideal_time = ideal_time,
                 !.path_blocked = path_blocked, !.triggered = triggered,
                 !.best = best.best_route, !.min_cost = best.min_cost]
    IN  IF apply
        THEN \/ \* traci.vehicle.setRoute(cid, best_route)
                RerouteDone([route EXCEPT ![cid] = best.best_route],
                            [e EXCEPT !.command = TRUE, !.path = best.best_route])
             \/ \* setRoute raises: caught at line 324
                RerouteDone(route, [e EXCEPT !.command = TRUE, !.failed = TRUE,
                                             !.path = best.best_route])
        ELSE RerouteDone(route, e)

\* One tick of RerouteBehaviour of agent a.
RerouteRun(a) ==
    LET cid == vehicle_id[a]
        skip == [NoReroute EXCEPT !.agent = a, !.cid = cid]
    IN  \/ \* not traci.isLoaded(), or no vehicle: return
           RerouteDone(route, skip)
        \/ /\ cid # None
           /\ \/ \* getIDList, getRoute or getRoadID raises: caught at line 331
                 RerouteDone(route, [skip EXCEPT !.failed = TRUE])
              \/ /\ cid \in active
                 /\ route[cid] # <<>>
                 /\ \E current_edge \in 0..(NumEdges + 1) :
                      IF current_edge = route[cid][Len(route[cid])] \/ current_edge = 0
                      THEN RerouteDone(route, [skip EXCEPT !.current = current_edge])
                      ELSE \E c \in Conditions, is_tuple \in BOOLEAN :
                             Evaluate(a, cid, current_edge, c[1], c[2], c[3], is_tuple)

\* ---------------------------------------------------- ensure_routes_loaded
\* The routes of the database file: the routes from the first edge of the
\* network to the last, through edges of rising ids.
RoutePool ==
    {SortedSeq(S \cup {1, NumEdges}) : S \in SUBSET (2..(NumEdges - 1))}

\* Lines 45-64: one entry of the file.
LoadEntry(dest_edge, route_edges) ==
    /\ ~routes_loaded
    /\ Len(routes_by_dest[dest_edge]) < MaxRoutes
    /\ routes_by_dest' =
          IF route_edges \in Range(routes_by_dest[dest_edge]) THEN routes_by_dest
          ELSE [routes_by_dest EXCEPT ![dest_edge] = Append(@, route_edges)]
    /\ UNCHANGED <<simVars, claimed_vehicles, vehicle_id, ev, threadVars, finderVars, peerVars,
                   routes_loaded, rr, rerouted_vehicles, loadVars>>

\* Line 68: the file has been read to its end.
FinishLoad ==
    /\ ~routes_loaded
    /\ routes_loaded' = TRUE
    /\ UNCHANGED <<simVars, claimed_vehicles, vehicle_id, ev, threadVars, finderVars, peerVars,
                   routes_by_dest, rr, rerouted_vehicles, loadVars>>

\* An agent controls an ordinary vehicle that has just departed.
InitReroute ==
    /\ active = {NumVehicles}
    /\ route = [v \in Vehicles |-> IF v = NumVehicles THEN DepartRoute ELSE <<>>]
    /\ closed = {}
    /\ claimed_vehicles = {NumVehicles}
    /\ vehicle_id = [a \in Agents |-> IF a = 1 THEN NumVehicles ELSE None]
    /\ ev = NoEvent
    /\ pc = [a \in Agents |-> "idle"]
    /\ car_ids = [a \in Agents |-> <<>>]
    /\ FinderIdle
    /\ RerouteIdle
    /\ PeersIdle

\* The tick is over: the next one starts from a clean record.
RerouteReturn ==
    /\ rr # NoReroute
    /\ rr' = NoReroute
    /\ UNCHANGED <<simVars, claimed_vehicles, vehicle_id, ev, threadVars, finderVars, peerVars,
                   routes_by_dest, routes_loaded, rerouted_vehicles, loadVars>>

NextReroute ==
    \/ rr = NoReroute /\ routes_loaded /\ \E a \in Agents : RerouteRun(a)
    \/ rr = NoReroute /\ \E r \in RoutePool : LoadEntry(r[Len(r)], r)
    \/ rr = NoReroute /\ FinishLoad
    \/ rr = NoReroute /\ \E l \in Lanes : LaneNumber(l[1]) = 1 /\ SetDisallowed(l)
    \/ rr = NoReroute /\ Vanish(NumVehicles)
    \/ RerouteReturn

SpecReroute == InitReroute /\ [][NextReroute]_vars

\* ------------------------------ ensure_routes_loaded of concurrent __init__
\* ctor[a] is where the call of agent a's constructor stands: "new" (not
\* called), "check" (routes_lock taken, before line 29), "load" (in the loop
\* of lines 45-64), "loaded" (its load reached line 66), "failed" (an entry
\* raised, line 69) or "done" (it returned without reading the file).
CtorGoto(a, label, locked) ==
    /\ ctor' = [ctor EXCEPT ![a] = label]
    /\ routes_lock' = locked
    /\ UNCHANGED <<simVars, claimed_vehicles, vehicle_id, ev, threadVars, finderVars, peerVars,
                   rr, rerouted_vehicles>>

\* The routes of the entries of the file: through edges of rising ids.
FileRoutes == {SortedSeq(S) : S \in {T \in SUBSET Edges : Cardinality(T) > 1}}

\* A with statement that does not wait for the lock.
LockRoutesFree(a) ==
    /\ ctor[a] = "new"
    /\ CtorGoto(a, "check", TRUE)
    /\ UNCHANGED <<routes_by_dest, routes_loaded>>

\* Line 28: with cls.routes_lock.
LockRoutes(a) ==
    /\ ctor[a] = "new"
    /\ ~routes_lock
    /\ CtorGoto(a, "check", TRUE)
    /\ UNCHANGED <<routes_by_dest, routes_loaded>>

\* Lines 29-43: return when the routes are loaded or the file is missing;
\* open and parse the file, which may raise (caught at line 69).
CheckLoaded(a) ==
    /\ ctor[a] = "check"
    /\ IF routes_loaded THEN CtorGoto(a, "done", FALSE)
       ELSE \/ CtorGoto(a, "done", FALSE)
            \/ CtorGoto(a, "load", routes_lock)
    /\ UNCHANGED <<routes_by_dest, routes_loaded>>

\* The entries of the file, as (dest, route) after get_edge_id: every route
\* under its last edge, and one entry whose dest names the last edge of the
\* network while its route stops one edge short of it.
FileEntries ==
    {<<r[Len(r)], r>> : r \in FileRoutes} \cup {<<NumEdges, SortedSeq(1..(NumEdges - 1))>>}

\* Mutant of AppendEntry: the route is appended without the test of line 65.
AppendEntryAlways(a, dest_edge, route_edges) ==
    /\ ctor[a] = "load"
    /\ Len(routes_by_dest[dest_edge]) < MaxRoutes
    /\ routes_by_dest' = [routes_by_dest EXCEPT ![dest_edge] = Append(@, route_edges)]
    /\ CtorGoto(a, "load", routes_lock)
    /\ UNCHANGED routes_loaded

\* Lines 45-64: one entry of the file.
AppendEntry(a, dest_edge, route_edges) ==
    /\ ctor[a] = "load"
    /\ Len(routes_by_dest[dest_edge]) < MaxRoutes
    /\ routes_by_dest' =
          IF route_edges \in Range(routes_by_dest[dest_edge]) THEN routes_by_dest
          ELSE [routes_by_dest EXCEPT ![dest_edge] = Append(@, route_edges)]
    /\ CtorGoto(a, "load", routes_lock)
    /\ UNCHANGED routes_loaded

\* Lines 69-70: an entry raises; what was appended stays.
LoadFails(a) ==
    /\ ctor[a] = "load"
    /\ CtorGoto(a, "failed", FALSE)
    /\ UNCHANGED <<routes_by_dest, routes_loaded>>

\* Line 66: the file has been read to its end.
LoadSucceeds(a) ==
    /\ ctor[a] = "load"
    /\ routes_loaded' = TRUE
    /\ CtorGoto(a, "loaded", FALSE)
    /\ UNCHANGED routes_by_dest

NextLoad ==
    \/ \E a \in Agents : LockRoutes(a)
    \/ \E a \in Agents : CheckLoaded(a)
    \/ \E a \in Agents : \E entry \in FileEntries : AppendEntry(a, entry[1], entry[2])
    \/ \E a \in Agents : LoadFails(a)
    \/ \E a \in Agents : LoadSucceeds(a)

SpecLoad == Init /\ [][NextLoad]_vars

\* ------------------------- both behaviours of every agent, agents on threads
\* The behaviours of one agent are coroutines of one event loop and run() has
\* no await before its end: a RerouteBehaviour tick of agent a runs as a
\* whole while a's CarInfoBehaviour is between two ticks, beside the steps of
\* the other agents.

\* Lines 168-186 and 306-325: a RerouteBehaviour tick of agent a that comes
\* to call setRoute.  Its vehicle is in the id list and is on an edge of its
\* route other than the last; the path is the rest, from that edge on, of a
\* route of the database to the same destination.  Which one the costs
\* select is left open here.
\* Mutant of RerouteCommand: the tick also closes lane 0 of the edge the
\* vehicle leaves.
RerouteCommandClosing(a) ==
    LET cid == vehicle_id[a] IN
    /\ pc[a] = "idle"
    /\ cid # None
    /\ cid \in active
    /\ route[cid] # <<>>
    /\ \E current_edge \in Range(route[cid]) \ {route[cid][Len(route[cid])]} :
         \E full_route \in Range(routes_by_dest[route[cid][Len(route[cid])]]) :
            /\ current_edge \in Range(full_route)
            /\ LET best_route == CandidatePath(full_route, current_edge)
                   e == [NoReroute EXCEPT !.agent = a, !.cid = cid, !.evaluated = TRUE,
                                          !.current = current_edge, !.triggered = TRUE,
                                          !.best = best_route, !.command = TRUE,
                                          !.path = best_route]
               IN  /\ route' = [route EXCEPT ![cid] = best_route]
                   /\ rr' = e
                   /\ rerouted_vehicles' = AddRerouted(e)
                   /\ closed' = closed \cup {<<current_edge, 0>>}
                   /\ UNCHANGED <<active, claimed_vehicles, vehicle_id, ev, threadVars,
                                  finderVars, peerVars, routes_by_dest, routes_loaded,
                                  loadVars>>

RerouteCommand(a) ==
    LET cid == vehicle_id[a] IN
    /\ pc[a] = "idle"
    /\ cid # None
    /\ cid \in active
    /\ route[cid] # <<>>
    /\ \E current_edge \in Range(route[cid]) \ {route[cid][Len(route[cid])]} :
         \E full_route \in Range(routes_by_dest[route[cid][Len(route[cid])]]) :
            /\ current_edge \in Range(full_route)
            /\ LET best_route == CandidatePath(full_route, current_edge)
                   e == [NoReroute EXCEPT !.agent = a, !.cid = cid, !.evaluated = TRUE,
                                          !.current = current_edge, !.triggered = TRUE,
                                          !.best = best_route, !.command = TRUE,
                                          !.path = best_route]
               IN  \/ RerouteDone([route EXCEPT ![cid] = best_route], e)
                   \/ \* setRoute raises: caught at line 324
                      RerouteDone(route, [e EXCEPT !.failed = TRUE])

\* The agents have been constructed: the database holds the direct route.
InitCommands ==
    /\ active = {}
    /\ route = [v \in Vehicles |-> <<>>]
    /\ closed = {}
    /\ claimed_vehicles = {}
    /\ vehicle_id = [a \in Agents |-> None]
    /\ ev = NoEvent
    /\ pc = [a \in Agents |-> "idle"]
    /\ car_ids = [a \in Agents |-> <<>>]
    /\ FinderIdle
    /\ routes_by_dest = [d \in Edges |-> IF d = NumEdges THEN <<<<1, NumEdges>>>> ELSE <<>>]
    /\ routes_loaded = TRUE
    /\ rr = NoReroute
    /\ LoadIdle
    /\ PeersIdle

\* The ordinary vehicle that departs here, time and again.
CommandedVehicles == {NumVehicles}

NextCommands ==
    \/ rr = NoReroute /\ \E a \in Agents : T_Begin(a)
    \/ rr = NoReroute /\ \E a \in Agents : T_Scan(a)
    \/ rr = NoReroute /\ \E a \in Agents : T_Check(a)
    \/ rr = NoReroute /\ \E a \in Agents : T_Monitor(a)
    \/ rr = NoReroute /\ \E a \in Agents : T_Release(a)
    \/ rr = NoReroute /\ \E a \in Agents : T_Clear(a)
    \/ rr = NoReroute /\ \E a \in Agents : RerouteCommand(a)
    \/ rr = NoReroute /\ \E v \in CommandedVehicles : Depart(v)
    \/ rr = NoReroute /\ \E v \in CommandedVehicles : Vanish(v)
    \/ RerouteReturn

SpecCommands == InitCommands /\ [][NextCommands]_vars

\* ------------------------------------------- PriorityManagerBehaviour
\* content.split(":"): the pieces of content between its colons.
RECURSIVE SplitFrom(_, _, _)
SplitFrom(content, i, part) ==
    IF i > Len(content) THEN <<part>>
    ELSE IF content[i] = ":" THEN <<part>> \o SplitFrom(content, i + 1, <<>>)
    ELSE SplitFrom(content, i + 1, Append(part, content[i]))

Split(content) == SplitFrom(content, 1, <<>>)

\* Line 112: "priority_request" in content.
IsPriorityRequest(content) == \E i \in 1..Len(content) : content[i] = "priority_request"

\* Mutant of VehId: the vehicle is read from the next piece.
VehIdShifted(parts) == parts[3]

\* Lines 116-117: parts[1] and parts[2] of the list.
VehId(parts) == parts[2]
TlsId(parts) == parts[3]

\* Mutant of Get: a key that is not in the dictionary answers the address
\* of another key.
GetDefault(mapping, tls_id) ==
    IF \E p \in mapping : <<p[1]>> = tls_id
    THEN {p[2] : p \in {q \in mapping : <<q[1]>> = tls_id}}
    ELSE {p[2] : p \in mapping}

\* Line 119: tls_mapping.get(tls_id), the set of what it answers (no element
\* for None).
Get(mapping, tls_id) == {p[2] : p \in {q \in mapping : <<q[1]>> = tls_id}}

\* Lines 122-124: the forwarded message.
ForwardMsg(tls_jid, veh_id) ==
    [to |-> tls_jid, performative |-> "request",
     body |-> <<"priority_request", ":">> \o veh_id]

\* Lines 109-130: what the step does with a received message: the messages
\* it sends and whether an exception leaves run().
Handle(msg) ==
    LET r == [NoRelay EXCEPT !.step = "run", !.received = msg] IN
    IF ~msg.has_body
    THEN \* "priority_request" in None raises TypeError outside the try
         [r EXCEPT !.raised = TRUE]
    ELSE IF IsPriorityRequest(msg.body) /\ tls_mapping.has
    THEN LET parts == Split(msg.body) IN
         IF Len(parts) >= 3
         THEN LET tls_jid == Get(tls_mapping.map, TlsId(parts)) IN
              IF tls_jid # {}
              THEN [r EXCEPT !.sent = <<ForwardMsg(CHOOSE j \in tls_jid : TRUE,
                                                   VehId(parts))>>]
              ELSE r
         ELSE r
    ELSE r

\* One step of PriorityManagerBehaviour.run: receive(timeout=10) answers the
\* next message, or None when there is none.
RelayRun ==
    /\ relay = NoRelay
    /\ IF mailbox = <<>>
       THEN /\ relay' = [NoRelay EXCEPT !.step = "timeout"]
            /\ mailbox' = mailbox
       ELSE /\ relay' = Handle(Head(mailbox))
            /\ mailbox' = Tail(mailbox)
    /\ UNCHANGED <<simVars, carVars, finderVars, rerouteVars, signalVars, otherVars, tls_mapping>>

\* The step is over: the next one starts from a clean record.
RelayReturn ==
    /\ relay # NoRelay
    /\ relay' = NoRelay
    /\ UNCHANGED <<simVars, carVars, finderVars, rerouteVars, signalVars, otherVars, tls_mapping, mailbox>>

\* A message with the performative "request" reaches the agent.
Deliver(msg) ==
    /\ relay = NoRelay
    /\ mailbox = <<>>
    /\ mailbox' = <<msg>>
    /\ UNCHANGED <<simVars, carVars, finderVars, rerouteVars, signalVars, otherVars, tls_mapping, relay>>

\* Lines 99-101: set_tls_mapping(mapping), between two steps.
SetTlsMapping(mapping) ==
    /\ relay = NoRelay
    /\ tls_mapping' = [has |-> TRUE, map |-> mapping]
    /\ UNCHANGED <<simVars, carVars, finderVars, rerouteVars, signalVars, otherVars, mailbox, relay>>

NextRelay ==
    \/ RelayRun
    \/ RelayReturn
    \/ mailbox = <<>> /\ relay = NoRelay /\ \E b \in Bodies : Deliver(Body(b))
    \/ Deliver(NoBody)
    \/ relay = NoRelay /\ \E mapping \in Mappings : SetTlsMapping(mapping)

SpecRelay == Init /\ [][NextRelay]_vars

\* ------------------------------------------------------ ControlBehaviour
RECURSIVE Sum(_)
Sum(q) == IF q = <<>> THEN 0 ELSE Head(q) + Sum(Tail(q))

\* Lines 76-116: the vehicles counted on the controlled lanes.  counts: the
\* vehicles on the lanes that are green in the first and in the second green
\* phase.  fails: "lanes", the query of the lanes raises and 0 is returned;
\* "count", the count of the first lane raises and the lane is passed over.
get_traffic_demand(counts, fails) ==
    IF fails = "lanes" THEN 0
    ELSE IF fails = "count" THEN Sum(Tail(counts))
    ELSE Sum(counts)

\* Lines 118-158.
determine_next_phase(current_phase_index, traffic_demand) ==
    IF traffic_demand < TRAFFIC_THRESHOLD /\ current_phase_index = 0 THEN 1
    ELSE IF traffic_demand < TRAFFIC_THRESHOLD /\ current_phase_index = 2 THEN 3
    ELSE IF current_phase_index = 1 THEN 2
    ELSE IF current_phase_index = 3 THEN 0
    ELSE current_phase_index

\* What a tick meets at one traffic light: every call answers, getPhase
\* raises, the lanes query or a lane count raises inside get_traffic_demand,
\* setPhase raises.
Meets == {"ok", "getPhase", "lanes", "count", "setPhase"}

\* The ticks in which at most one traffic light meets a call that raises.
TickMeets ==
    {m \in [TlsIds -> Meets] : \A t, u \in TlsIds : (m[t] # "ok" /\ m[u] # "ok") => t = u}

\* The vehicles a lane count answers, and the counts of the two groups of
\* lanes of a traffic light.
DemandLevels == {1, MaxDemand}
LaneCounts == {<<a, b>> : a, b \in DemandLevels}

\* A loop that answers a pending priority request by leaving a yellow phase
\* for phase 0 at once.
RECURSIVE ControlLoopPreempting(_, _, _, _)
ControlLoopPreempting(i, st, counted, meets) ==
    IF i > Len(TlList) THEN st
    ELSE LET tl == TlList[i]
             current_phase_index == st.phase[tl]
             traffic_demand == get_traffic_demand(counted[tl], meets[tl])
             next_phase_index == IF tl_inbox[tl] > 0 /\ ~IsGreen(current_phase_index) THEN 0
                                 ELSE determine_next_phase(current_phase_index, traffic_demand)
             called == [st EXCEPT !.commands =
                           Append(@, [tl |-> tl, from |-> current_phase_index,
                                      to |-> next_phase_index])]
         IN  IF meets[tl] = "getPhase" THEN st
             ELSE IF next_phase_index = current_phase_index
             THEN ControlLoopPreempting(i + 1, st, counted, meets)
             ELSE IF meets[tl] = "setPhase" \/ next_phase_index \notin Phases(tl)
             THEN called
             ELSE ControlLoopPreempting(i + 1,
                              [called EXCEPT !.phase[tl] = next_phase_index,
                                             !.elapsed[tl] = 0],
                              counted, meets)

\* Lines 176-201: the loop over tl_ids from the i-th on.  st holds the
\* phases, the times in phase and the setPhase calls made so far; setPhase
\* raises for an index that is no phase of the plan; an exception leaves
\* the loop.
RECURSIVE ControlLoop(_, _, _, _)
ControlLoop(i, st, counted, meets) ==
    IF i > Len(TlList) THEN st
    ELSE LET tl == TlList[i]
             current_phase_index == st.phase[tl]
             traffic_demand == get_traffic_demand(counted[tl], meets[tl])
             next_phase_index == determine_next_phase(current_phase_index, traffic_demand)
             called == [st EXCEPT !.commands =
                           Append(@, [tl |-> tl, from |-> current_phase_index,
                                      to |-> next_phase_index])]
         IN  IF meets[tl] = "getPhase" THEN st
             ELSE IF next_phase_index = current_phase_index
             THEN ControlLoop(i + 1, st, counted, meets)
             ELSE IF meets[tl] = "setPhase" \/ next_phase_index \notin Phases(tl)
             THEN called
             ELSE ControlLoop(i + 1,
                              [called EXCEPT !.phase[tl] = next_phase_index,
                                             !.elapsed[tl] = 0],
                              counted, meets)

\* Lines 166-211: one run of ControlBehaviour, then sleep(5).
ControlRun ==
    /\ tl_alive /\ tl_wait = 0 /\ tl_run = NoRun
    /\ tl_wait' = TickPeriod
    /\ \/ \* getIDList or another call raises FatalTraCIError: self.kill()
          /\ tl_alive' = FALSE
          /\ tl_run' = [NoRun EXCEPT !.ran = TRUE]
          /\ UNCHANGED <<tl_phase, tl_elapsed>>
       \/ \* getIDList raises another exception
          /\ tl_run' = [NoRun EXCEPT !.ran = TRUE]
          /\ UNCHANGED <<tl_phase, tl_elapsed, tl_alive>>
       \/ \E counted \in [TlsIds -> LaneCounts], meets \in TickMeets :
             LET st == ControlLoop(1, [phase |-> tl_phase, elapsed |-> tl_elapsed,
                                       commands |-> <<>>],
                                   counted, meets)
             IN  /\ tl_phase' = st.phase
                 /\ tl_elapsed' = st.elapsed
                 /\ tl_run' = [ran |-> TRUE, counted |-> counted, meets |-> meets,
                               commands |-> st.commands]
                 /\ UNCHANGED tl_alive
    /\ UNCHANGED <<simVars, carVars, finderVars, rerouteVars, relayVars, otherVars, tl_plan, tl_inbox>>

\* The run is over: the next one starts from a clean record.
ControlReturn ==
    /\ tl_run # NoRun
    /\ tl_run' = NoRun
    /\ UNCHANGED <<tl_phase, tl_elapsed, tl_wait, tl_alive, tl_plan, tl_inbox>>
    /\ UNCHANGED <<simVars, carVars, finderVars, rerouteVars, relayVars, otherVars>>

\* The sleep(5) is over: five seconds of the simulation have passed.
Advance ==
    /\ tl_run = NoRun
    /\ tl_wait > 0 \/ ~tl_alive
    /\ tl_wait' = 0
    /\ tl_elapsed' = [t \in TlsIds |-> IF tl_elapsed[t] + TickPeriod < MaxElapsed
                                       THEN tl_elapsed[t] + TickPeriod ELSE MaxElapsed]
    /\ UNCHANGED <<tl_phase, tl_alive, tl_plan, tl_run, tl_inbox>>
    /\ UNCHANGED <<simVars, carVars, finderVars, rerouteVars, relayVars, otherVars>>

\* The simulation runs the signal plan by itself: a phase that has lasted
\* its time in the plan is followed by the next one.
ProgramAdvance(tl) ==
    /\ tl_run = NoRun
    /\ tl_elapsed[tl] > 0
    /\ tl_phase' = [tl_phase EXCEPT ![tl] = (@ + 1) % tl_plan[tl]]
    /\ tl_elapsed' = [tl_elapsed EXCEPT ![tl] = 0]
    /\ UNCHANGED <<tl_wait, tl_alive, tl_plan, tl_run, tl_inbox>>
    /\ UNCHANGED <<simVars, carVars, finderVars, rerouteVars, relayVars, otherVars>>

\* AmbulanceManagerAgent.MonitorAmbulanceBehaviour, lines 70-79: an
\* ambulance is within 150 m of traffic light tl and tls_mapping knows the
\* agent of tl, which is sent "priority_request:<veh_id>".  No behaviour of
\* TrafficLightAgent receives messages: the request stays unread.
SendPriorityRequest(tl) ==
    /\ tl_run = NoRun
    /\ tl_inbox[tl] < MaxRequests
    /\ tl_inbox' = [tl_inbox EXCEPT ![tl] = @ + 1]
    /\ UNCHANGED <<tl_phase, tl_elapsed, tl_wait, tl_alive, tl_plan, tl_run>>
    /\ UNCHANGED <<simVars, carVars, finderVars, rerouteVars, relayVars, otherVars>>

\* The network the simulation has loaded: a plan for every traffic light.
InitSignal ==
    /\ CarsIdle
    /\ RelayIdle
    /\ OthersIdle
    /\ SignalStart
    /\ tl_plan \in [TlsIds -> PlanLengths]

NextSignal ==
    \/ ControlRun
    \/ ControlReturn
    \/ Advance
    \/ \E tl \in TlsIds : ProgramAdvance(tl)
    \/ \E tl \in TlsIds : SendPriorityRequest(tl)

SpecSignal == InitSignal /\ [][NextSignal]_vars

\* ------------------------------------------------------------------ claims
Owners == {vehicle_id[a] : a \in Agents} \ {None}

\* C1: under any interleaving of the agents' threads, no two agents hold the
\* same non-None vehicle id at the same time.
ExclusiveOwnership ==
    \A a, b \in Agents :
        (a # b /\ vehicle_id[a] # None) => vehicle_id[a] # vehicle_id[b]

\* Agent x is about to scan a list in which v, an ordinary vehicle, is the
\* only id that is not claimed yet.
SoleCandidate(x, v) ==
    /\ pc[x] = "scan"
    /\ vehicle_id[x] = None
    /\ TypeID(v) = "passenger"
    /\ v \in Range(car_ids[x])
    /\ \A w \in Range(car_ids[x]) \ {v} : w \in claimed_vehicles

\* The scan of an agent whose only candidate is v claims v iff v is not
\* claimed; and once it has, the scan of any other agent with the same only
\* candidate claims nothing.
TryClaimStep ==
    \A a \in Agents : (pc[a] = "scan" /\ pc'[a] = "check") =>
      \A v \in Vehicles : SoleCandidate(a, v) =>
            IF v \in claimed_vehicles
            THEN vehicle_id'[a] = None /\ claimed_vehicles' = claimed_vehicles
            ELSE /\ vehicle_id'[a] = v
                 /\ claimed_vehicles' = claimed_vehicles \cup {v}
                 /\ \A b \in Agents \ {a} :
                      SoleCandidate(b, v) =>
                        /\ vehicle_id'[b] = None
                        /\ \A typeFails \in ScanFailures(car_ids[b])' :
                             ClaimScan(car_ids'[b], claimed_vehicles', typeFails) = None

\* A claim stays in the registry until its owner's own release step.
ClaimStands ==
    \A a \in Agents :
        (vehicle_id[a] # None /\ pc[a] # "clear") => vehicle_id[a] \in claimed_vehicles

\* C2: of two unassigned agents that scan concurrently for the one unclaimed
\* ordinary vehicle, exactly one claims it and the other stays unassigned:
\* the test "not in claimed_vehicles" and the add are one step.
ExactlyOneClaims == []ClaimStands /\ [][TryClaimStep]_vars

\* C2 witness: both agents have scanned a list with v; one owns v, the other
\* is left without a vehicle.
ExactlyOneClaimsWitness ==
    \E a, b \in Agents, v \in Vehicles :
        /\ a # b /\ pc[a] = "check" /\ pc[b] = "check"
        /\ v \in Range(car_ids[a]) /\ v \in Range(car_ids[b])
        /\ TypeID(v) = "passenger" /\ v \in active
        /\ vehicle_id[a] = v /\ vehicle_id[b] = None
        /\ claimed_vehicles = {v}

NeverClaimsAmbulance ==
    \A a \in Agents : vehicle_id[a] # None => TypeID(vehicle_id[a]) # "ambulance"

\* C5: a tick of an agent whose vehicle is not active any more, with the
\* simulation available (isLoaded, and no call raises), leaves the vehicle out
\* of the registry and the agent without a vehicle.
VanishedIsReleasedStep ==
    \A a \in Agents :
        ( /\ ev'.op = "car" /\ ev'.agent = a /\ ev'.avail /\ ~ev'.failed
          /\ vehicle_id[a] # None /\ vehicle_id[a] \notin active )
        => (vehicle_id'[a] = None /\ vehicle_id[a] \notin claimed_vehicles')

VanishedIsReleased == [][VanishedIsReleasedStep]_vars

\* C5 witness: a tick has just released a vehicle it saw absent.
VanishedIsReleasedWitness ==
    /\ ev.op = "car" /\ ev.avail /\ ~ev.failed /\ ev.absent
    /\ ev.start # None /\ ev.start \notin active
    /\ vehicle_id[ev.agent] = None
    /\ ev.start \notin claimed_vehicles

\* C6: a release step never raises and takes just the agent's id out of the
\* registry; for an id that is not in the registry (a second release of the
\* same id) it leaves the registry as it is.
ReleaseStepIdempotent ==
    \A a \in Agents :
        (pc[a] = "release" /\ pc'[a] # "release") =>
            /\ ~ev'.raised
            /\ pc'[a] = "clear"
            /\ claimed_vehicles' = claimed_vehicles \ {vehicle_id[a]}
            /\ (vehicle_id[a] \notin claimed_vehicles => claimed_vehicles' = claimed_vehicles)
            /\ Release(claimed_vehicles', vehicle_id[a]) = [raised |-> FALSE, set |-> claimed_vehicles']

ReleaseIdempotent == [][ReleaseStepIdempotent]_vars

\* C6 witness: two agents have released the same id, one after the other.
ReleaseIdempotentWitness ==
    \E a, b \in Agents :
        /\ a # b /\ pc[a] = "clear" /\ pc[b] = "clear"
        /\ vehicle_id[a] = vehicle_id[b]
        /\ vehicle_id[a] \notin claimed_vehicles
        /\ ~ev.raised

\* A tick takes an id out of the registry only if it saw the vehicle absent
\* from the id list or its remove command succeeded.
RemovedOnlyWhenGone ==
    (ev'.op = "car" /\ claimed_vehicles \ claimed_vehicles' # {})
        => (ev'.absent \/ ev'.removed # None)

\* C7 as stated: ... and a tick in which a simulation call fails leaves the
\* registry and the agent's vehicle_id unchanged.
FailedTickChangesNothingStep ==
    /\ RemovedOnlyWhenGone
    /\ (ev'.op = "car" /\ ev'.failed)
         => (claimed_vehicles' = claimed_vehicles /\ vehicle_id' = vehicle_id)

FailedTickReleasesNothingStep ==
    /\ RemovedOnlyWhenGone
    /\ (ev'.op = "car" /\ ev'.failed)
         => /\ claimed_vehicles \subseteq claimed_vehicles'
            /\ \A a \in Agents :
                 (vehicle_id[a] # None \/ a # ev'.agent) => vehicle_id'[a] = vehicle_id[a]

NoErrorEscapes == ~ev.raised


\* The edges with at least one lane open to passenger vehicles.
OpenEdges == {e \in DOMAIN edges : ~AllLanesClosed(e)}

\* The open edges that a walk over open edges reaches from the set S.
RECURSIVE OpenReach(_)
OpenReach(S) ==
    LET T == S \cup {v \in OpenEdges : \E u \in S : v \in Range(graph[u])}
    IN  IF T = S THEN S ELSE OpenReach(T)

\* A path of open edges joins start_edge to end_edge.
OpenPath(start_edge, end_edge) ==
    /\ start_edge \in OpenEdges
    /\ end_edge \in OpenReach({start_edge})

\* A call with check_closures=True during which every lane query is answered.
ClosureCheckedCall == query # NoQuery /\ query.check /\ query.sim = "ok"

\* C9: a path that find_route(start, end, check_closures=True) returns holds
\* no edge whose lanes are all closed to passenger vehicles at the time of the
\* call, the start edge included.
NoBlockedEdgeInRoute ==
    ClosureCheckedCall =>
        \A i \in 1..Len(query.path) : ~AllLanesClosed(query.path[i])

\* C10: find_route returns the empty list when the start or the end edge is
\* not in the graph or no path of open edges joins them, and a non-empty list
\* only when such a path exists.
EmptyUnlessOpenPath ==
    ClosureCheckedCall =>
        (query.path # <<>> <=>
            /\ query.start \in DOMAIN edges
            /\ query.end \in DOMAIN edges
            /\ OpenPath(query.start, query.end))

\* The call in progress takes edge e for blocked.
SeenBlocked(e) == query.check /\ IsEdgeBlocked(e, query.sim)

\* The chains of connections from the last edge of p to end_edge that repeat
\* no edge and hold no edge the call takes for blocked, each with p in front.
RECURSIVE Extend(_, _)
Extend(p, end_edge) ==
    IF p[Len(p)] = end_edge THEN {p}
    ELSE UNION {Extend(Append(p, v), end_edge) :
                  v \in {w \in Range(graph[p[Len(p)]]) :
                           w \notin Range(p) /\ ~SeenBlocked(w)}}

\* The legal chains from the start edge to the end edge of the call.
LegalChains ==
    IF query.start \notin DOMAIN edges \/ query.end \notin DOMAIN edges
       \/ SeenBlocked(query.start)
    THEN {}
    ELSE Extend(<<query.start>>, query.end)

\* C11: when exactly one legal chain of connections leads from the start edge
\* to the end edge, find_route returns that chain, from start to end in order.
OnlyChainIsReturned ==
    (query # NoQuery /\ Cardinality(LegalChains) = 1) => query.path \in LegalChains

\* C11 witness: a call has returned the only chain, of three edges or more.
OnlyChainIsReturnedWitness ==
    /\ query # NoQuery
    /\ Cardinality(LegalChains) = 1
    /\ Len(query.path) >= 3
    /\ query.path[1] = query.start /\ query.path[Len(query.path)] = query.end

\* The total length of the edges of a path.
RECURSIVE PathCost(_)
PathCost(p) == IF p = <<>> THEN 0 ELSE edges[Head(p)] + PathCost(Tail(p))

\* C12: a non-empty path that find_route returns costs no more than any chain
\* of unblocked edges from start to end.
RouteCostIsMinimal ==
    (query # NoQuery /\ query.path # <<>>) =>
        \A q \in LegalChains : PathCost(query.path) <= PathCost(q)

\* C12 witness: a call has returned a path where a longer chain of unblocked
\* edges leads to the same end.
RouteCostIsMinimalWitness ==
    /\ query # NoQuery /\ query.path # <<>>
    /\ query.path \in LegalChains
    /\ \E q \in LegalChains : PathCost(q) > PathCost(query.path)

\* C13: an evaluation that finds an edge of the remaining path fully closed
\* triggers the reroute attempt, whatever the times are.
BlockedPathTriggers ==
    ( /\ rr.evaluated /\ rr.fail1 # "lanes"
      /\ \E i \in 1..Len(rr.remaining) : AllLanesClosed(rr.remaining[i]) )
    => rr.triggered

\* C13 witness: an evaluation has triggered on a closed edge with no jam and
\* every query answered.
BlockedPathTriggersWitness ==
    /\ rr.evaluated /\ rr.fail1 = "none" /\ rr.jam = <<0, 0>>
    /\ \E i \in 1..Len(rr.remaining) : AllLanesClosed(rr.remaining[i])
    /\ rr.triggered

\* C14: an evaluation triggers the reroute attempt iff remaining_time >
\* ideal_time * factor, or remaining_time - ideal_time > max delay, or an edge
\* of the remaining path is blocked, for every value of the two times.
TriggerIffSlowOrBlocked ==
    rr.evaluated =>
        (rr.triggered <=>
            \/ FactorDen * rr.remaining_time > FactorNum * rr.ideal_time
            \/ rr.remaining_time - rr.ideal_time > MaxAllowedDelay
            \/ rr.path_blocked)

\* C15: setRoute is called only with a path that is not empty and differs
\* from the remaining path of the vehicle.
CommandOnlyForNewPath ==
    rr.command => (rr.path # <<>> /\ rr.path # rr.remaining)

\* C16: a path given to setRoute starts at the current edge of the vehicle and
\* holds no edge whose lanes were all closed when the candidate was evaluated
\* (the lane queries being answered).
CommandPathIsUsable ==
    rr.command =>
        /\ rr.path # <<>>
        /\ rr.path[1] = rr.current
        /\ rr.fail2 # "lanes" => \A i \in 1..Len(rr.path) : ~AllLanesClosed(rr.path[i])

\* C16 witness: the remaining path of the vehicle holds a closed edge, and
\* setRoute was called with another path, which the vehicle now follows.
CommandPathIsUsableWitness ==
    /\ rr.command /\ ~rr.failed /\ rr.fail2 # "lanes"
    /\ \E i \in 1..Len(rr.remaining) : AllLanesClosed(rr.remaining[i])
    /\ rr.path # rr.remaining
    /\ route[rr.cid] = rr.path

\* The routes of the database to the destination of the evaluated vehicle.
EvaluatedRoutes == routes_by_dest[rr.remaining[Len(rr.remaining)]]

\* The i-th route holds the current edge and its suffix is found open.
Eligible(i) ==
    /\ rr.current \in Range(EvaluatedRoutes[i])
    /\ ~PathBlocked(CandidatePath(EvaluatedRoutes[i], rr.current), rr.fail2)

SuffixCost(i) == CandidateCost(CandidatePath(EvaluatedRoutes[i], rr.current), rr.jam, rr.fail2)

\* C17: the best route of a triggered evaluation is the suffix of least cost
\* among the eligible routes of the database, the first of the list among
\* those of equal cost; there is none only if no route is eligible.
BestIsFirstCheapest ==
    (rr.evaluated /\ rr.triggered) =>
        LET E == {i \in 1..Len(EvaluatedRoutes) : Eligible(i)} IN
        IF E = {} THEN rr.best = <<>>
        ELSE \E i \in E :
               /\ rr.best = CandidatePath(EvaluatedRoutes[i], rr.current)
               /\ rr.min_cost = SuffixCost(i)
               /\ \A j \in E : SuffixCost(j) >= SuffixCost(i)
               /\ \A j \in E : j < i => SuffixCost(j) > SuffixCost(i)

\* C17 witness: two different eligible suffixes of equal cost, the first one
\* selected.
BestIsFirstCheapestWitness ==
    /\ rr.evaluated /\ rr.triggered
    /\ \E i, j \in 1..Len(EvaluatedRoutes) :
         /\ i < j /\ Eligible(i) /\ Eligible(j)
         /\ SuffixCost(i) = SuffixCost(j)
         /\ CandidatePath(EvaluatedRoutes[i], rr.current)
              # CandidatePath(EvaluatedRoutes[j], rr.current)
         /\ rr.best = CandidatePath(EvaluatedRoutes[i], rr.current)

\* body reads 'priority_request:<V>:<X>', the colon at k parting V from X.
IsRequestFor(body, k) ==
    /\ Len(body) >= 3 /\ k \in 3..Len(body)
    /\ body[1] = "priority_request" /\ body[2] = ":" /\ body[k] = ":"
    /\ \A i \in 3..Len(body) : i # k => body[i] # ":"

RequestVehicle(body, k) == SubSeq(body, 3, k - 1)
RequestIntersection(body, k) == SubSeq(body, k + 1, Len(body))

\* C18: a step that received 'priority_request:<V>:<X>', X a key of the map,
\* has sent one message, a request carrying V, to the address the map gives
\* for X, and nothing else.
RequestIsForwardedOnce ==
    (relay.step = "run" /\ relay.received.has_body /\ tls_mapping.has) =>
        LET body == relay.received.body IN
        \A k \in 3..Len(body) : \A p \in tls_mapping.map :
            (IsRequestFor(body, k) /\ RequestIntersection(body, k) = <<p[1]>>) =>
                relay.sent = << [to |-> p[2], performative |-> "request",
                                 body |-> <<"priority_request", ":">>
                                          \o RequestVehicle(body, k)] >>

\* C18 witness: with two intersections mapped, the request of V1 for J1 was
\* received and a message was sent.
RequestIsForwardedOnceWitness ==
    /\ relay.step = "run" /\ tls_mapping.has
    /\ {p[1] : p \in tls_mapping.map} = TlsIds
    /\ relay.received = Body(<<"priority_request", ":", "V1", ":", "J1">>)
    /\ relay.sent # <<>>

\* msg is a priority request whose intersection is no key of the map, or no
\* map was set.
Unmapped(msg) ==
    /\ msg.has_body
    /\ \E k \in 3..Len(msg.body) :
         /\ IsRequestFor(msg.body, k)
         /\ \/ ~tls_mapping.has
            \/ \A p \in tls_mapping.map : <<p[1]>> # RequestIntersection(msg.body, k)

\* C19: the step that receives a request for an unmapped intersection sends
\* nothing, raises nothing and keeps nothing of it (the message leaves the
\* mailbox, the map is as before); and whatever a step sends is for the
\* message that step received, which is no such request.
UnmappedIsDroppedStep ==
    /\ (relay.step = "none" /\ relay'.step = "run" /\ Unmapped(Head(mailbox))) =>
          /\ relay'.sent = <<>> /\ ~relay'.raised
          /\ mailbox' = Tail(mailbox)
          /\ tls_mapping' = tls_mapping
    /\ (relay'.sent # relay.sent /\ relay'.sent # <<>>) =>
          /\ mailbox # <<>> /\ ~Unmapped(Head(mailbox))
          /\ relay'.received = Head(mailbox)

UnmappedIsDropped == [][UnmappedIsDroppedStep]_vars

\* C19 witness: a map was set, a request for an intersection it does not
\* hold was received, and nothing was sent.
UnmappedIsDroppedWitness ==
    /\ relay.step = "run" /\ tls_mapping.has /\ tls_mapping.map # {}
    /\ Unmapped(relay.received)
    /\ relay.sent = <<>> /\ mailbox = <<>>

\* C20: the controller switches out of a GREEN phase only when the phase
\* has lasted at least min_green and at most max_green plus one tick period,
\* and no GREEN phase lasts longer than that.
GreenDwellStep ==
    \A t \in TlsIds :
        /\ (/\ tl_wait = 0 /\ tl_wait' = TickPeriod
            /\ IsGreen(tl_phase[t]) /\ tl_phase'[t] # tl_phase[t])
              => (/\ min_green <= tl_elapsed[t]
                  /\ tl_elapsed[t] <= max_green + TickPeriod)
        /\ IsGreen(tl_phase'[t]) => tl_elapsed'[t] <= max_green + TickPeriod

GreenDwellWithinBounds == [][GreenDwellStep]_vars

\* C21: every setPhase call of a run takes a traffic light from its phase i
\* to the phase (i + 1) mod N of its plan of N phases.
CommandsCyclicSuccessor ==
    \A k \in 1..Len(tl_run.commands) :
        LET c == tl_run.commands[k] IN
        /\ c.to \in Phases(c.tl)
        /\ c.to = (c.from + 1) % tl_plan[c.tl]

\* The demand of the phase a traffic light is in and of its other phase,
\* from the vehicles counted on the lanes of each.
CurrentDemand(counts, p) == IF p = 0 THEN counts[1] ELSE counts[2]
OtherDemand(counts, p) == IF p = 0 THEN counts[2] ELSE counts[1]

\* A run whose calls are all answered.
AnsweredRun == ~tl_run.ran /\ tl_run'.ran /\ \A t \in TlsIds : tl_run'.meets[t] = "ok"

\* C22: a run that finds a traffic light in a GREEN phase for min_green or
\* longer switches it when the demand of the other phase is more than 1.25
\* times the demand of the current one, and keeps it, short of max_green,
\* when the current phase has the heavy demand and the other the light one:
\* with the demands [10, 1] in phase 0 it does not switch, with [1, 10] it
\* does.
SwitchOnDemandStep ==
    \A t \in TlsIds :
        (AnsweredRun /\ tl_run'.counted[t] # <<>>
         /\ IsGreen(tl_phase[t]) /\ tl_elapsed[t] >= min_green) =>
            LET cur == CurrentDemand(tl_run'.counted[t], tl_phase[t])
                oth == OtherDemand(tl_run'.counted[t], tl_phase[t])
            IN  /\ 4 * oth > 5 * cur => tl_phase'[t] # tl_phase[t]
                /\ (cur = MaxDemand /\ oth = 1 /\ tl_elapsed[t] < max_green)
                      => tl_phase'[t] = tl_phase[t]

SwitchOnDemand == [][SwitchOnDemandStep]_vars

\* C23: a run in which a query about a traffic light fails (its phase, its
\* controlled lanes or the vehicle count of a lane) calls setPhase for no
\* phase of that traffic light.
FailedQueryCommandsNothing ==
    \A t \in TlsIds :
        tl_run.meets[t] \in {"getPhase", "lanes", "count"} =>
            \A k \in 1..Len(tl_run.commands) : tl_run.commands[k].tl # t

\* C24: in a run made while a priority request for a traffic light is
\* unread, a YELLOW phase of that traffic light is left only as it is left
\* without a request, for the phase determine_next_phase gives from the phase
\* and the demand alone, and a GREEN phase is kept or left for its successor.
RequestKeepsTimersStep ==
    \A t \in TlsIds :
        (~tl_run.ran /\ tl_run'.ran /\ tl_inbox[t] > 0 /\ tl_phase'[t] # tl_phase[t]) =>
            LET demand == get_traffic_demand(tl_run'.counted[t], tl_run'.meets[t])
            IN  IF IsGreen(tl_phase[t])
                THEN tl_phase'[t] = (tl_phase[t] + 1) % tl_plan[t]
                ELSE tl_phase'[t] = determine_next_phase(tl_phase[t], demand)

Holds(a, v) == vehicle_id[a] = v /\ v \in claimed_vehicles

\* Agent b stands where run() can go on to a command for vehicle v.
CanCommand(b, v) == vehicle_id[b] = v /\ pc[b] \notin {"release", "clear"}

\* The step is a command of agent a for vehicle v: the remove of line 150
\* or the setRoute of line 321.
RemoveCommand(a, v) ==
    pc[a] = "monitor" /\ pc'[a] = "release" /\ vehicle_id[a] = v
SetRouteCommand(a, v) ==
    rr = NoReroute /\ rr'.command /\ rr'.agent = a /\ rr'.cid = v

\* C25: an agent that issues a remove or a setRoute command for a vehicle
\* holds the claim on it at that moment, and no other agent stands where it
\* can command the same vehicle.
CommandsByHolderStep ==
    \A a \in Agents, v \in Vehicles :
        (RemoveCommand(a, v) \/ SetRouteCommand(a, v)) =>
            /\ Holds(a, v)
            /\ \A b \in Agents \ {a} : ~CanCommand(b, v)

CommandsByHolder == [][CommandsByHolderStep]_vars

CommandsByHolderWitness ==
    /\ rr.command /\ ~rr.failed
    /\ Holds(rr.agent, rr.cid)
    /\ route[rr.cid] = rr.path
    /\ \E b \in Agents \ {rr.agent} : vehicle_id[b] = rr.cid /\ pc[b] = "clear"

\* C26: at most one load of the route database reaches its end, whatever
\* the order of the steps of the constructors, and once routes_loaded is
\* true it stays true and routes_by_dest is not modified.
AtMostOneLoad == Cardinality({a \in Agents : ctor[a] = "loaded"}) <= 1

LoadedIsFrozenStep ==
    routes_loaded => (routes_loaded' /\ routes_by_dest' = routes_by_dest)

LoadedOnce == []AtMostOneLoad /\ [][LoadedIsFrozenStep]_vars

LoadedOnceWitness ==
    /\ routes_loaded
    /\ \E a, b \in Agents : ctor[a] = "loaded" /\ ctor[b] = "done"
    /\ \E d \in Edges : Len(routes_by_dest[d]) > 1

\* C27: a tick of an agent that holds an active vehicle removes the vehicle,
\* gives it up and takes it out of the registry when the edge after the
\* vehicle's route index is the last of the route, all its lanes are closed
\* to passenger vehicles and no call of the tick raises; in every other tick
\* (the next edge is not the last, a lane is open, a query raises) no vehicle
\* is removed and the agent and the registry keep the vehicle.
FinalEdgeRemovalStep ==
    \A a \in Agents :
        ( /\ ev'.op = "car" /\ ev'.agent = a /\ ev'.avail
          /\ vehicle_id[a] # None /\ vehicle_id[a] \in active ) =>
            LET cid == vehicle_id[a] IN
            IF ev'.next_edge # None /\ AllLanesClosed(ev'.next_edge) /\ ~ev'.failed
            THEN /\ ev'.removed = cid /\ cid \notin active'
                 /\ vehicle_id'[a] = None
                 /\ cid \notin claimed_vehicles'
            ELSE /\ ev'.removed = None /\ cid \in active'
                 /\ vehicle_id'[a] = cid
                 /\ cid \in claimed_vehicles'

FinalEdgeRemoval == [][FinalEdgeRemovalStep]_vars

FinalEdgeRemovalWitness ==
    /\ ev.op = "car" /\ ev.start # None /\ ~ev.failed
    /\ ev.next_edge = DepartRoute[Len(DepartRoute)] /\ AllLanesClosed(ev.next_edge)
    /\ ev.removed = ev.start
    /\ vehicle_id[ev.agent] = None
    /\ ev.start \notin claimed_vehicles \cup active

\* The first id of ids that is neither claimed nor of the priority class.
RECURSIVE FirstOrdinaryFree(_, _)
FirstOrdinaryFree(ids, cl) ==
    IF ids = <<>> THEN None
    ELSE IF Head(ids) \notin cl /\ TypeID(Head(ids)) # "ambulance" THEN Head(ids)
    ELSE FirstOrdinaryFree(Tail(ids), cl)

\* C28: a tick of an agent without a vehicle that gets the id list claims
\* the first id of the list that is neither claimed nor an ambulance, and
\* the agent holds it (unless the same tick goes on to remove it); when the
\* list has no such id the agent stays without a vehicle and the registry
\* is unchanged.
ClaimsFirstOrdinaryStep ==
    \A a \in Agents :
        ( /\ ev'.op = "car" /\ ev'.agent = a /\ ev'.avail /\ ~ev'.raised
          /\ vehicle_id[a] = None ) =>
            LET cid == FirstOrdinaryFree(IDList, claimed_vehicles) IN
            IF cid = None
            THEN vehicle_id'[a] = None /\ claimed_vehicles' = claimed_vehicles
            ELSE \/ vehicle_id'[a] = cid /\ claimed_vehicles' = claimed_vehicles \cup {cid}
                 \/ /\ ev'.removed = cid
                    /\ vehicle_id'[a] = None /\ claimed_vehicles' = claimed_vehicles

ClaimsFirstOrdinary == [][ClaimsFirstOrdinaryStep]_vars

\* No route of the database to the destination holds the current edge with
\* every edge from it on open.
NoUsablePath ==
    \A i \in 1..Len(EvaluatedRoutes) :
        \/ rr.current \notin Range(EvaluatedRoutes[i])
        \/ LET path == CandidatePath(EvaluatedRoutes[i], rr.current)
           IN  \E k \in 1..Len(path) : AllLanesClosed(path[k])

\* C29: a tick whose evaluation triggers and finds no usable path (the lane
\* queries being answered) calls setRoute for nothing and leaves the route of
\* every vehicle, the agents' vehicles, the registry and the rerouted sets as
\* they were, so that the next tick evaluates the same vehicle again.
NoPathChangesNothingStep ==
    (rr = NoReroute /\ rr'.evaluated /\ rr'.triggered /\ rr'.fail2 # "lanes" /\ NoUsablePath') =>
        /\ ~rr'.command
        /\ route' = route
        /\ vehicle_id' = vehicle_id
        /\ claimed_vehicles' = claimed_vehicles
        /\ rerouted_vehicles' = rerouted_vehicles

NoPathChangesNothing == [][NoPathChangesNothingStep]_vars

NoPathChangesNothingWitness ==
    /\ rr.evaluated /\ rr.triggered /\ rr.fail2 = "none" /\ NoUsablePath
    /\ \E i \in 1..Len(EvaluatedRoutes) : rr.current \in Range(EvaluatedRoutes[i])
    /\ ~rr.command
    /\ vehicle_id[rr.agent] = rr.cid
    /\ route[rr.cid] = DepartRoute

\* C30: no step takes an id out of an agent's rerouted_vehicles, a release
\* of the vehicle included, and a step adds an id only as the tick of that
\* agent whose setRoute call for that id has succeeded.
ReroutedOnlyGrowsStep ==
    \A a \in Agents :
        /\ rerouted_vehicles[a] \subseteq rerouted_vehicles'[a]
        /\ rerouted_vehicles'[a] # rerouted_vehicles[a] =>
              /\ rr'.command /\ ~rr'.failed /\ rr'.agent = a
              /\ rerouted_vehicles'[a] = rerouted_vehicles[a] \cup {rr'.cid}
              /\ route'[rr'.cid] = rr'.path

ReroutedOnlyGrows == [][ReroutedOnlyGrowsStep]_vars

ReroutedOnlyGrowsWitness ==
    \E a \in Agents : \E v \in rerouted_vehicles[a] :
        /\ vehicle_id[a] = None
        /\ v \notin claimed_vehicles
        /\ pc[a] = "idle"

\* C31: once __init__ has returned, no step -- a find_route call with the
\* _is_edge_blocked calls it makes, its return, a change of the lanes --
\* changes self.edges or self.graph.
StaticGraphStep == parsed => (edges' = edges /\ graph' = graph)

StaticGraph == [][StaticGraphStep]_vars

\* C31 witness: a closure-checking call has met a blocked edge of the graph
\* and has returned a path around it.
StaticGraphWitness ==
    /\ parsed
    /\ ClosureCheckedCall
    /\ Len(query.path) >= 2
    /\ \E u \in DOMAIN graph : \E i \in 1..Len(graph[u]) : AllLanesClosed(graph[u][i])


\* The answer of the call in progress is true exactly when the simulation is
\* loaded, no query of the call raises and every lane of the edge is closed
\* to passenger vehicles.
BlockedAnswer ==
    blocked.result <=>
        (blocked.loaded /\ blocked.fails = {} /\ AllLanesClosed(blocked.edge))

\* C32: _is_edge_blocked(e) returns true iff the lane queries succeed and
\* every lane of e disallows passenger; it returns false when the simulation
\* is not loaded or a lane query raises, and it never raises.
BlockedIffAllClosed ==
    blocked # NoCall => (~blocked.raised /\ BlockedAnswer)

\* C32 witness: a call on the edge of two lanes, both closed, has answered
\* false because the query of its second lane raised.
BlockedIffAllClosedWitness ==
    /\ blocked # NoCall
    /\ LaneNumber(blocked.edge) = 2
    /\ AllLanesClosed(blocked.edge)
    /\ blocked.loaded /\ blocked.fails = {1}
    /\ ~blocked.result


\* C33: the list routes_by_dest[dest] of every destination edge holds no path
\* twice, whatever entries the file repeats and whether the load is the first
\* one or one that follows a load that failed half way.
NoDuplicateRoutes ==
    \A d \in Edges : \A i, j \in 1..Len(routes_by_dest[d]) :
        i # j => routes_by_dest[d][i] # routes_by_dest[d][j]

\* C33 witness: an earlier load has failed after it had appended a route, and
\* the load of another constructor meets that route again and reads the file
\* to its end.
NoDuplicateRoutesWitness ==
    /\ routes_loaded
    /\ \E a, b \in Agents : ctor[a] = "failed" /\ ctor[b] = "loaded"
    /\ \E d \in Edges : Len(routes_by_dest[d]) = MaxRoutes


\* C34: every path stored under routes_by_dest[d] ends at edge d (so that a
\* suffix of it, applied to a vehicle bound for d, ends at d).
StoredPathsEndAtDest ==
    \A d \in Edges : \A i \in 1..Len(routes_by_dest[d]) :
        routes_by_dest[d][i][Len(routes_by_dest[d][i])] = d


\* The step is one of a behaviour of a vehicle controller.
ControllerStep == ev'.op = "thread" \/ (rr = NoReroute /\ rr' # NoReroute)

\* C35: a step of a vehicle controller writes no lane permission, takes a
\* vehicle out of the simulation only by the remove command of the check of
\* the final edge, and changes the route of a vehicle that stays only by a
\* setRoute command for that vehicle, to the path of the command.
CoreOnlyCommandsStep ==
    ControllerStep =>
        /\ closed' = closed
        /\ active' \subseteq active
        /\ \A v \in active \ active' : \E a \in Agents : RemoveCommand(a, v)
        /\ \A v \in active' :
              route'[v] # route[v] =>
                  /\ \E a \in Agents : SetRouteCommand(a, v)
                  /\ ~rr'.failed
                  /\ route'[v] = rr'.path

CoreOnlyCommands == [][CoreOnlyCommandsStep]_vars

\* C35 witness: a setRoute command has replaced the route the vehicle
\* departed with, while an agent other than the commanding one is inside a
\* tick; no lane has been written.
CoreOnlyCommandsWitness ==
    /\ rr.command /\ ~rr.failed
    /\ route[rr.cid] = rr.path /\ rr.path # DepartRoute
    /\ \E b \in Agents \ {rr.agent} : pc[b] = "scan"
    /\ closed = {}


\* C36: a CongestionPredictor that has just been constructed is untrained and
\* holds no sample, whatever predictors were constructed, fed, trained and
\* saved before it in the same data directory.
NewPredictorIsEmpty ==
    predictor.fresh =>
        /\ ~predictor.is_trained
        /\ predictor.total_samples_collected = 0
        /\ predictor.training_labels = <<>>


\* C37: a non-empty path that find_route returns begins with the start edge,
\* ends with the end edge, steps along connections of the graph only and
\* holds no edge twice; for start = end it is the path of that one edge.
WellFormedPath ==
    (query # NoQuery /\ query.path # <<>>) =>
        LET p == query.path IN
        /\ p[1] = query.start
        /\ p[Len(p)] = query.end
        /\ \A i \in 1..(Len(p) - 1) : p[i + 1] \in Range(graph[p[i]])
        /\ \A i, j \in 1..Len(p) : i # j => p[i] # p[j]
        /\ query.start = query.end => p = <<query.start>>

\* C37 witness: a call whose start edge is its end edge has returned the
\* path of that one edge, where connections lead from the edge round to it.
WellFormedPathWitness ==
    /\ query # NoQuery
    /\ query.start = query.end
    /\ query.path = <<query.start>>
    /\ \E v \in Range(graph[query.start]) : query.start \in Range(graph[v])


\* C38: a tick that found no edge of the remaining path blocked calls
\* setRoute only if the cost of the best open candidate is below 90% of
\* remaining_time; a tick that found one blocked calls setRoute with the best
\* open candidate whenever that differs from the remaining path, whatever
\* its cost.
SwitchRule ==
    /\ (rr.command /\ ~rr.path_blocked) => 10 * rr.min_cost < 9 * rr.remaining_time
    /\ (rr.evaluated /\ rr.path_blocked /\ rr.best # <<>> /\ rr.best # rr.remaining) =>
           (rr.command /\ rr.path = rr.best)

\* C38 witness: a tick triggered by slowness alone has found an open
\* candidate that is not cheap enough and has left the route alone.
SwitchRuleWitness ==
    /\ rr.triggered /\ ~rr.path_blocked
    /\ rr.best # <<>>
    /\ 10 * rr.min_cost >= 9 * rr.remaining_time
    /\ ~rr.command
    /\ route[rr.cid] = DepartRoute


\* C39: at most one ambulance is tracked in active_ambulances at any time,
\* whatever the order of the runs of the spawn and the monitor behaviour, and
\* no two ambulances were spawned under the same id.
OneAmbulanceTracked ==
    /\ Cardinality(ambulance_manager.active_ambulances) <= 1
    /\ \A i, j \in 1..Len(ambulance_manager.spawned) :
          i # j => ambulance_manager.spawned[i] # ambulance_manager.spawned[j]

\* C39 witness: an ambulance has been spawned after an earlier one was
\* dropped, and the monitor waits at its send for the one that is tracked.
OneAmbulanceTrackedWitness ==
    /\ ambulance_manager.pc = "send"
    /\ Len(ambulance_manager.spawned) >= 2
    /\ ambulance_manager.active_ambulances # {}

\* C40: while the closure window of a disruption is in progress, the lanes it
\* closed are closed to passenger, whatever the other disruptions do: the
\* reopening of one disruption never opens a lane another one holds closed.
ClosureWindowHolds ==
    \A b \in Behaviours :
        disruptions[b].pc = "closed" => disruptions[b].holds \subseteq closed

====
